---- MODULE Spec2Model ----
(***************************************************************************)
(* A model of the rust-math-parser pipeline: TokenParser::parse (lexer.rs), *)
(* Parser::parse (parser.rs) and Interpreter::run (interpreter/core.rs)     *)
(* with its ExecutionContext, ScopeArena, CallStack and Value operations.   *)
(*                                                                         *)
(* Source text is a sequence of one-character strings.  Offsets, scope IDs  *)
(* and lines keep the source's numbering (offsets and scope IDs from 0,     *)
(* lines and columns from 1).                                               *)
(***************************************************************************)
EXTENDS Integers, Sequences, FiniteSets, TLC

VARIABLES
    program,          \* TokenParser.program
    lx,               \* TokenParser cursor: pos, line, column
    tokens,           \* the token vector (lexer output, Parser.tokens)
    ast,              \* the tree returned by Parser::parse
    phase,            \* "lex", "parse", "run" or "done" (main.rs / run_source)
    outcome,          \* how the pipeline ended
    error,            \* the error value returned by the failing stage
    ctl,              \* evaluator: the call being entered or the result being returned
    kont,             \* evaluator: the pending Rust activations (innermost last)
    scopes,           \* ExecutionContext.scope_arena.scopes
    current_scope,    \* ExecutionContext.current_scope
    call_stack,       \* ExecutionContext.call_stack.frames
    function_depth,   \* ExecutionContext.function_depth
    return_values,    \* ExecutionContext.return_values
    output            \* effects of native calls, in order (stdout and the assert log)

vars == <<program, lx, tokens, ast, phase, outcome, error, ctl, kont, scopes,
          current_scope, call_stack, function_depth, return_values, output>>

(***************************************************************************)
(* Characters                                                              *)
(***************************************************************************)
NL == "\n"
TAB == "\t"
CR == "\r"
DQUOTE == "\""
Digits == {"0", "1", "2", "3", "4", "5", "6", "7", "8", "9"}
Letters == {"a", "b", "c", "d", "e", "f", "g", "h", "i", "j", "k", "l", "m",
            "n", "o", "p", "q", "r", "s", "t", "u", "v", "w", "x", "y", "z",
            "A", "B", "C", "D", "E", "F", "G", "H", "I", "J", "K", "L", "M",
            "N", "O", "P", "Q", "R", "S", "T", "U", "V", "W", "X", "Y", "Z"}
NoChar == "EOF"

DigitValue(c) ==
    CASE c = "0" -> 0 [] c = "1" -> 1 [] c = "2" -> 2 [] c = "3" -> 3
      [] c = "4" -> 4 [] c = "5" -> 5 [] c = "6" -> 6 [] c = "7" -> 7
      [] c = "8" -> 8 [] c = "9" -> 9

(***************************************************************************)
(* Errors of the three stages, as one record shape                         *)
(***************************************************************************)
NoToken == [token_type |-> "None", numeral |-> "None", operator_type |-> "None",
            value |-> <<>>, start |-> 0, end |-> 0, line |-> 0]

NoError == [kind |-> "None", msg |-> "", arg |-> <<>>, token |-> NoToken,
            line |-> 0, column |-> 0, stack |-> <<>>]

\* LexerInvalidTokenError {kind, line, column}
LexerInvalidTokenError(k, text, l, c) ==
    [kind |-> k, msg |-> "", arg |-> <<text>>, token |-> NoToken,
     line |-> l, column |-> c, stack |-> <<>>]

(***************************************************************************)
(* Lexer: TokenParser                                                      *)
(***************************************************************************)
Token(tt, nt, ot, val, s, e, l) ==
    [token_type |-> tt, numeral |-> nt, operator_type |-> ot,
     value |-> val, start |-> s, end |-> e, line |-> l]

\* TokenParser::peek / peek_with_offset
LexPeek(prog, cur, n) ==
    IF cur.pos + n < Len(prog) THEN prog[cur.pos + n + 1] ELSE NoChar

\* TokenParser::digest
LexDigest(prog, cur) ==
    IF prog[cur.pos + 1] = NL
    THEN [pos |-> cur.pos + 1, line |-> cur.line + 1, column |-> 1]
    ELSE [pos |-> cur.pos + 1, line |-> cur.line, column |-> cur.column + 1]

\* TokenParser::slice_range_to_string; start > end is a slice panic
SliceRange(prog, s, e) == SubSeq(prog, s + 1, e)

\* the comment loop: digest up to and including the newline
RECURSIVE SkipComment(_, _)
SkipComment(prog, cur) ==
    IF cur.pos >= Len(prog) THEN cur
    ELSE IF prog[cur.pos + 1] = NL THEN LexDigest(prog, cur)
    ELSE SkipComment(prog, LexDigest(prog, cur))

\* the string loop: digest up to and including the next '"', or to the end
RECURSIVE ScanString(_, _)
ScanString(prog, cur) ==
    IF cur.pos >= Len(prog) THEN cur
    ELSE IF prog[cur.pos + 1] = DQUOTE THEN LexDigest(prog, cur)
    ELSE ScanString(prog, LexDigest(prog, cur))

\* the identifier loop
RECURSIVE ScanIdent(_, _)
ScanIdent(prog, cur) ==
    IF cur.pos >= Len(prog) THEN cur
    ELSE IF prog[cur.pos + 1] \notin (Letters \cup Digits \cup {"_"}) THEN cur
    ELSE ScanIdent(prog, LexDigest(prog, cur))

\* the numeric loop, were it to digest a second '.' before reporting it
RECURSIVE ScanNumber_digesting(_, _, _)
ScanNumber_digesting(prog, cur, is_float) ==
    IF cur.pos >= Len(prog)
    THEN [cur |-> cur, is_float |-> is_float, malformed |-> FALSE]
    ELSE LET ch == prog[cur.pos + 1] IN
         IF ch \in Digits THEN ScanNumber_digesting(prog, LexDigest(prog, cur), is_float)
         ELSE IF ch = "." /\ ~is_float THEN ScanNumber_digesting(prog, LexDigest(prog, cur), TRUE)
         ELSE IF ch = "."
         THEN [cur |-> LexDigest(prog, cur), is_float |-> is_float, malformed |-> TRUE]
         ELSE [cur |-> cur, is_float |-> is_float, malformed |-> FALSE]

\* the numeric loop; stops with malformed = TRUE at a second '.'
RECURSIVE ScanNumber(_, _, _)
ScanNumber(prog, cur, is_float) ==
    IF cur.pos >= Len(prog)
    THEN [cur |-> cur, is_float |-> is_float, malformed |-> FALSE]
    ELSE LET ch == prog[cur.pos + 1] IN
         IF ch \in Digits THEN ScanNumber(prog, LexDigest(prog, cur), is_float)
         ELSE IF ch = "." /\ ~is_float THEN ScanNumber(prog, LexDigest(prog, cur), TRUE)
         ELSE IF ch = "." THEN [cur |-> cur, is_float |-> is_float, malformed |-> TRUE]
         ELSE [cur |-> cur, is_float |-> is_float, malformed |-> FALSE]

KeywordType(text) ==
    CASE text = <<"i", "f">> -> "ConditionalIf"
      [] text = <<"e", "l", "s", "e">> -> "ConditionalElse"
      [] text = <<"f", "u", "n", "c">> -> "FunctionDeclaration"
      [] text = <<"l", "e", "t">> -> "Declaration"
      [] text = <<"t", "r", "u", "e">> -> "BooleanLiteral"
      [] text = <<"f", "a", "l", "s", "e">> -> "BooleanLiteral"
      [] text = <<"r", "e", "t", "u", "r", "n">> -> "Return"
      [] OTHER -> "Symbol"

ArithOperatorType(c) ==
    CASE c = "+" -> "Additive.Add"
      [] c = "-" -> "Additive.Sub"
      [] c = "*" -> "Multiplicative.Mul"
      [] c = "/" -> "Multiplicative.Div"
      [] c = "^" -> "Exponential"

PunctuationType(c) ==
    CASE c = "(" -> "ParenthesisL"
      [] c = ")" -> "ParenthesisR"
      [] c = "{" -> "BlockStart"
      [] c = "}" -> "BlockEnd"
      [] c = "," -> "ArgumentSeparator"

LexOk(cur, toks) == [status |-> "ok", cur |-> cur, toks |-> toks, err |-> NoError]
LexErr(cur, e) == [status |-> "err", cur |-> cur, toks |-> <<>>, err |-> e]
LexPanic(cur) == [status |-> "panic", cur |-> cur, toks |-> <<>>, err |-> NoError]

\* One iteration of the `while let Some(c) = self.peek()` loop of
\* TokenParser::parse, arms in source order.
LexOne(prog, cur) ==
    LET c == LexPeek(prog, cur, 0)
        c1 == LexPeek(prog, cur, 1)
        start == cur.pos
        d1 == LexDigest(prog, cur)
        d2 == LexDigest(prog, d1)
    IN
    CASE c \in {" ", NL} -> LexOk(d1, <<>>)
      [] c = "/" /\ c1 = "/" -> LexOk(SkipComment(prog, d2), <<>>)
      [] c = ";" ->
           LexOk(d1, <<Token("EndOfstatement", "None", "None", <<";">>, start, d1.pos, d1.line)>>)
      [] c = "!" /\ c1 = "=" ->
           LexOk(d2, <<Token("Operator", "None", "Comp.Neq", <<"!", "=">>, start, d2.pos, d2.line)>>)
      [] c = ">" ->
           IF c1 = "="
           THEN LexOk(d2, <<Token("Operator", "None", "Comp.Gte", <<">", "=">>, start, d2.pos, d2.line)>>)
           ELSE LexOk(d1, <<Token("Operator", "None", "Comp.Gt", <<">">>, start, start, d1.line)>>)
      [] c = "<" ->
           IF c1 = "="
           THEN LexOk(d2, <<Token("Operator", "None", "Comp.Lte", <<"<", "=">>, start, d2.pos, d2.line)>>)
           ELSE LexOk(d1, <<Token("Operator", "None", "Comp.Lt", <<"<">>, start, d1.pos, d1.line)>>)
      [] c = "=" ->
           IF c1 = "="
           THEN LexOk(d2, <<Token("Operator", "None", "Comp.Eq", <<"=", "=">>, start, d2.pos, d2.line)>>)
           ELSE LexOk(d1, <<Token("Assignment", "None", "None", <<"=">>, start, d1.pos, d1.line)>>)
      [] c = DQUOTE ->
           LET e == ScanString(prog, d1) IN
           IF start + 1 > e.pos - 1
           THEN LexPanic(e)   \* slice_range_to_string(start + 1, pos - 1) with begin > end
           ELSE LexOk(e, <<Token("StringLiteral", "None", "None",
                                 SliceRange(prog, start + 1, e.pos - 1), start, e.pos, e.line)>>)
      [] c \in Letters \cup {"_"} ->
           LET e == ScanIdent(prog, d1)
               text == SliceRange(prog, start, e.pos)
           IN LexOk(e, <<Token(KeywordType(text), "None", "None", text, start, e.pos, e.line)>>)
      [] c \in Digits ->
           LET r == ScanNumber(prog, d1, FALSE)
               text == SliceRange(prog, start, r.cur.pos)
           IN IF r.malformed
              THEN LexErr(r.cur, LexerInvalidTokenError("MalformedNumberLiteral", text,
                                                        r.cur.line, r.cur.column))
              ELSE LexOk(r.cur, <<Token("NumeralLiteral",
                                        IF r.is_float THEN "Float" ELSE "Integer",
                                        "None", text, start, r.cur.pos, r.cur.line)>>)
      [] c \in {"+", "-", "*", "^"} \/ (c = "/" /\ c1 # "/") ->
           LexOk(d1, <<Token("Operator", "None", ArithOperatorType(c), <<c>>, start, d1.pos, d1.line)>>)
      [] c = "!" /\ c1 # "=" ->
           LexOk(d1, <<Token("Operator", "None", "Unary.Not", <<"!">>, start, d1.pos, d1.line)>>)
      [] c \in {"(", ")", "{", "}", ","} ->
           LexOk(d1, <<Token(PunctuationType(c), "None", "None", <<c>>, start, d1.pos, d1.line)>>)
      [] OTHER ->
           LexErr(cur, LexerInvalidTokenError("UnexpectedToken", <<c>>, cur.line, cur.column))

\* TokenParser::new
LexStart == [pos |-> 0, line |-> 1, column |-> 1]

(***************************************************************************)
(* Values (interpreter/value.rs).  One record shape for every variant:      *)
(* Integer(n), Float(n/d) with d > 0 in lowest terms, String(s),            *)
(* Boolean(n = 1 for true) and Empty.  The same records stand for           *)
(* node::Literal payloads.                                                  *)
(***************************************************************************)
Integer(i) == [t |-> "Integer", n |-> i, d |-> 1, s |-> <<>>]
String(txt) == [t |-> "String", n |-> 0, d |-> 1, s |-> txt]
Boolean(b) == [t |-> "Boolean", n |-> IF b THEN 1 ELSE 0, d |-> 1, s |-> <<>>]
Empty == [t |-> "Empty", n |-> 0, d |-> 1, s |-> <<>>]
\* Option<Value>::None in a return slot
NoValue == [t |-> "None", n |-> 0, d |-> 1, s |-> <<>>]

Abs(i) == IF i < 0 THEN -i ELSE i

RECURSIVE Gcd(_, _)
Gcd(a, b) == IF b = 0 THEN a ELSE Gcd(b, a % b)

\* an f64 holding the rational num/den (den # 0)
Float(num, den) ==
    LET g == Gcd(Abs(num), Abs(den))
        sg == IF den < 0 THEN -1 ELSE 1
    IN [t |-> "Float", n |-> sg * (num \div g), d |-> sg * (den \div g), s |-> <<>>]

RECURSIVE Pow10(_)
Pow10(k) == IF k = 0 THEN 1 ELSE 10 * Pow10(k - 1)

\* str::parse::<i64> on a run of digits
RECURSIVE DigitsToInt(_)
DigitsToInt(text) ==
    IF text = <<>> THEN 0
    ELSE 10 * DigitsToInt(SubSeq(text, 1, Len(text) - 1)) + DigitValue(text[Len(text)])

RECURSIVE IndexOfDot(_, _)
IndexOfDot(text, i) ==
    IF i > Len(text) THEN 0 ELSE IF text[i] = "." THEN i ELSE IndexOfDot(text, i + 1)

\* str::parse::<f64> on digits '.' digits*
DigitsToFloat(text) ==
    LET dot == IndexOfDot(text, 1)
        ip == IF dot = 0 THEN text ELSE SubSeq(text, 1, dot - 1)
        fp == IF dot = 0 THEN <<>> ELSE SubSeq(text, dot + 1, Len(text))
    IN Float(DigitsToInt(ip) * Pow10(Len(fp)) + DigitsToInt(fp), Pow10(Len(fp)))

(***************************************************************************)
(* AST (node.rs).  Expression variants are tuples led by the variant name:  *)
(*   <<"Literal", v>>  <<"Identifier", name>>                               *)
(*   <<"BinaryOperation", left, op, right>>  <<"UnaryOperation", op, e>>    *)
(*   <<"FunctionCall", name, args, location>>  <<"Declaration", name, e>>   *)
(*   <<"IfConditional", cond, if_block, else_block>>                        *)
(*   <<"FunctionDeclaration", name, params, block>>                         *)
(*   <<"Return", e>>  <<"Statement", e>>  <<"Program", body>>               *)
(* else_block is [some |-> BOOLEAN, block |-> Block].                        *)
(***************************************************************************)
NoNode == <<"None">>
None == [some |-> FALSE, block |-> <<>>]
Some(b) == [some |-> TRUE, block |-> b]

build_method_call_node(name, args, location) == <<"FunctionCall", name, args, location>>
build_conditional_node(c, if_block, else_block) == <<"IfConditional", c, if_block, else_block>>
build_binary_op_node(op, left, right) == <<"BinaryOperation", left, op, right>>
build_assignment_node(name, e) == <<"Declaration", name, e>>
build_return_node(e) == <<"Return", e>>
build_function_declaration_node(name, args, block) == <<"FunctionDeclaration", name, args, block>>
build_unary_node(op, e) == <<"UnaryOperation", "Unary." \o op, e>>
build_program_node(body) == <<"Program", body>>
build_statement_node(e) == <<"Statement", e>>

\* node::build_node, for the token kinds the parser passes to it
build_node(token, left, right) ==
    CASE token.token_type = "NumeralLiteral" /\ token.numeral = "Integer" ->
           <<"Literal", Integer(DigitsToInt(token.value))>>
      [] token.token_type = "NumeralLiteral" /\ token.numeral = "Float" ->
           <<"Literal", DigitsToFloat(token.value)>>
      [] token.token_type = "StringLiteral" -> <<"Literal", String(token.value)>>
      [] token.token_type = "BooleanLiteral" ->
           <<"Literal", Boolean(token.value = <<"t", "r", "u", "e">>)>>
      [] token.token_type = "Operator" ->
           build_binary_op_node(token.operator_type, left, right)
      [] token.token_type = "Symbol" -> <<"Identifier", token.value>>

(***************************************************************************)
(* Parser (parser.rs).  Every routine takes the token vector and the        *)
(* position and returns [ok, node, tok, pos, err].                           *)
(***************************************************************************)
POk(node, pos) == [ok |-> TRUE, node |-> node, tok |-> NoToken, pos |-> pos, err |-> NoError]
PTok(tok, pos) == [ok |-> TRUE, node |-> NoNode, tok |-> tok, pos |-> pos, err |-> NoError]
PErr(e, pos) == [ok |-> FALSE, node |-> NoNode, tok |-> NoToken, pos |-> pos, err |-> e]

error_unexpected_token(token, expected) ==
    [kind |-> "UnexpectedToken", msg |-> expected, arg |-> <<>>, token |-> token,
     line |-> 0, column |-> 0, stack |-> <<>>]
error_unrecognized_token(token) ==
    [kind |-> "UnrecognizedToken", msg |-> "", arg |-> <<>>, token |-> token,
     line |-> 0, column |-> 0, stack |-> <<>>]
error_eof ==
    [kind |-> "UnexpectedEOF", msg |-> "", arg |-> <<>>, token |-> NoToken,
     line |-> 0, column |-> 0, stack |-> <<>>]

\* TokenType::to_string, which differs from the variant name for EndOfstatement
TokenTypeName(tt) == IF tt = "EndOfstatement" THEN "EndOfStatement" ELSE tt

\* Parser::peek: Some(token) iff has
PPeek(toks, pos) ==
    IF pos < Len(toks) THEN [has |-> TRUE, tok |-> toks[pos + 1]]
    ELSE [has |-> FALSE, tok |-> NoToken]

peek_type_is(toks, pos, expected) ==
    PPeek(toks, pos).has /\ PPeek(toks, pos).tok.token_type = expected

\* Parser::digest
digest(toks, pos, expected) ==
    LET p == PPeek(toks, pos) IN
    IF ~p.has THEN PErr(error_eof, pos)
    ELSE IF p.tok.token_type # expected
    THEN PErr(error_unexpected_token(p.tok, TokenTypeName(expected)), pos)
    ELSE PTok(p.tok, pos + 1)

AdditiveOps == {"Additive.Add", "Additive.Sub"}
MultiplicativeOps == {"Multiplicative.Mul", "Multiplicative.Div"}
CompOps == {"Comp.Eq", "Comp.Neq", "Comp.Gt", "Comp.Lt", "Comp.Gte", "Comp.Lte"}
UnaryOps == {"Unary.Min", "Unary.Not"}

\* Token::operator_predecende: <<precedence, right-associative>>
operator_predecende(token) ==
    CASE token.operator_type \in AdditiveOps -> <<1, FALSE>>
      [] token.operator_type \in MultiplicativeOps -> <<2, FALSE>>
      [] token.operator_type = "Exponential" -> <<3, TRUE>>
      [] token.operator_type \in CompOps -> <<4, FALSE>>
      [] token.operator_type \in UnaryOps -> <<1, FALSE>>
      [] OTHER -> <<1, FALSE>>

\* a parser that hands precedence + 1 to the right operand of every operator
next_precedence_left(op_precedence, is_right) == op_precedence + 1

\* the choice of the precedence handed to the right operand
next_precedence(op_precedence, is_right) ==
    IF is_right THEN op_precedence ELSE op_precedence + 1

RECURSIVE parse_block(_, _)
RECURSIVE parse_block_loop(_, _, _)
RECURSIVE parse_block_with_delimiters(_, _)
RECURSIVE parse_statement(_, _)
RECURSIVE parse_function_declaration(_, _)
RECURSIVE parse_conditional(_, _)
RECURSIVE parse_statement_or_block(_, _)
RECURSIVE parse_expression(_, _, _)
RECURSIVE parse_method_call(_, _)
RECURSIVE parse_method_args(_, _, _)
RECURSIVE parse_binary_expression(_, _, _)
RECURSIVE parse_binary_loop(_, _, _, _)
RECURSIVE parse_term(_, _)
RECURSIVE statement_of(_, _, _)
RECURSIVE binary_step(_, _, _, _, _, _)
RECURSIVE term_of(_, _, _)

\* consume_statement_terminator, were the `;` optional after every statement
consume_statement_terminator_optional(toks, pos, stmt) ==
    IF peek_type_is(toks, pos, "EndOfstatement") THEN digest(toks, pos, "EndOfstatement")
    ELSE PTok(NoToken, pos)

\* Parser::consume_statement_terminator
consume_statement_terminator(toks, pos, stmt) ==
    IF stmt[1] \in {"IfConditional", "FunctionDeclaration"} THEN PTok(NoToken, pos)
    ELSE digest(toks, pos, "EndOfstatement")

\* the `?` of Rust: an Err is returned at once, an Ok value goes on to rest
Try(r, rest(_)) == IF ~r.ok THEN r ELSE rest(r)

\* the parameter loop of parse_function_declaration
RECURSIVE parse_params(_, _, _)
parse_params(toks, pos, args) ==
    IF ~PPeek(toks, pos).has \/ PPeek(toks, pos).tok.token_type = "ParenthesisR"
    THEN POk(args, pos)
    ELSE Try(digest(toks, pos, "Symbol"), LAMBDA sym :
         IF ~PPeek(toks, sym.pos).has THEN PErr(error_eof, sym.pos)
         ELSE IF PPeek(toks, sym.pos).tok.token_type # "ParenthesisR"
         THEN Try(digest(toks, sym.pos, "ArgumentSeparator"), LAMBDA sep :
              parse_params(toks, sep.pos, Append(args, sym.tok.value)))
         ELSE parse_params(toks, sym.pos, Append(args, sym.tok.value)))

parse_function_declaration(toks, pos) ==
    Try(digest(toks, pos, "FunctionDeclaration"), LAMBDA kw :
    Try(digest(toks, kw.pos, "Symbol"), LAMBDA identifier :
    Try(digest(toks, identifier.pos, "ParenthesisL"), LAMBDA lp :
    Try(parse_params(toks, lp.pos, <<>>), LAMBDA args :
    Try(digest(toks, args.pos, "ParenthesisR"), LAMBDA rp :
    Try(parse_block_with_delimiters(toks, rp.pos), LAMBDA block :
    POk(build_function_declaration_node(identifier.tok.value, args.node, block.node),
        block.pos)))))))

parse_block_with_delimiters(toks, pos) ==
    Try(digest(toks, pos, "BlockStart"), LAMBDA bs :
    Try(parse_block(toks, bs.pos), LAMBDA block :
    Try(digest(toks, block.pos, "BlockEnd"), LAMBDA be :
    POk(block.node, be.pos))))

parse_block_loop(toks, pos, body) ==
    IF ~PPeek(toks, pos).has THEN POk(body, pos)
    ELSE IF PPeek(toks, pos).tok.token_type = "Eof" THEN POk(body, pos + 1)
    ELSE IF PPeek(toks, pos).tok.token_type = "BlockEnd" THEN POk(body, pos)
    ELSE Try(parse_statement(toks, pos), LAMBDA stmt :
         Try(consume_statement_terminator(toks, stmt.pos, stmt.node), LAMBDA term :
         parse_block_loop(toks, term.pos, Append(body, build_statement_node(stmt.node)))))

parse_block(toks, pos) == parse_block_loop(toks, pos, <<>>)

parse_declaration(toks, pos) ==
    Try(digest(toks, pos, "Declaration"), LAMBDA kw :
    Try(digest(toks, kw.pos, "Symbol"), LAMBDA symbol :
    Try(digest(toks, symbol.pos, "Assignment"), LAMBDA asg :
    Try(parse_expression(toks, asg.pos, 0), LAMBDA expr :
    POk(build_assignment_node(symbol.tok.value, expr.node), expr.pos)))))

parse_return(toks, pos) ==
    Try(digest(toks, pos, "Return"), LAMBDA kw :
    Try(parse_expression(toks, kw.pos, 0), LAMBDA expr :
    POk(build_return_node(expr.node), expr.pos)))

\* statement_of, were a `;` alone taken for an empty statement
statement_of_accepting_empty(toks, pos, token) ==
    CASE token.token_type \in {"NumeralLiteral", "BooleanLiteral", "Operator",
                               "Symbol", "StringLiteral"} -> parse_expression(toks, pos, 0)
      [] token.token_type = "Declaration" -> parse_declaration(toks, pos)
      [] token.token_type = "FunctionDeclaration" -> parse_function_declaration(toks, pos)
      [] token.token_type = "ConditionalIf" -> parse_conditional(toks, pos)
      [] token.token_type = "Return" -> parse_return(toks, pos)
      [] token.token_type = "EndOfstatement" -> POk(<<"Literal", Empty>>, pos)
      [] OTHER -> PErr(error_unrecognized_token(token), pos)

\* the match of parse_statement on the type of the token peeked
statement_of(toks, pos, token) ==
    CASE token.token_type \in {"NumeralLiteral", "BooleanLiteral", "Operator",
                               "Symbol", "StringLiteral"} -> parse_expression(toks, pos, 0)
      [] token.token_type = "Declaration" -> parse_declaration(toks, pos)
      [] token.token_type = "FunctionDeclaration" -> parse_function_declaration(toks, pos)
      [] token.token_type = "ConditionalIf" -> parse_conditional(toks, pos)
      [] token.token_type = "Return" -> parse_return(toks, pos)
      [] OTHER -> PErr(error_unrecognized_token(token), pos)

parse_statement(toks, pos) ==
    IF ~PPeek(toks, pos).has THEN PErr(error_eof, pos)
    ELSE statement_of(toks, pos, PPeek(toks, pos).tok)

parse_conditional(toks, pos) ==
    Try(digest(toks, pos, "ConditionalIf"), LAMBDA kw :
    Try(digest(toks, kw.pos, "ParenthesisL"), LAMBDA lp :
    Try(parse_expression(toks, lp.pos, 0), LAMBDA expr :
    Try(digest(toks, expr.pos, "ParenthesisR"), LAMBDA rp :
    Try(parse_statement_or_block(toks, rp.pos), LAMBDA if_block :
    IF peek_type_is(toks, if_block.pos, "ConditionalElse")
    THEN Try(parse_statement_or_block(toks, if_block.pos + 1), LAMBDA else_block :
         POk(build_conditional_node(expr.node, if_block.node, Some(else_block.node)),
             else_block.pos))
    ELSE POk(build_conditional_node(expr.node, if_block.node, None), if_block.pos))))))

parse_statement_or_block(toks, pos) ==
    IF peek_type_is(toks, pos, "BlockStart") THEN parse_block_with_delimiters(toks, pos)
    ELSE Try(parse_statement(toks, pos), LAMBDA stmt :
         Try(consume_statement_terminator(toks, stmt.pos, stmt.node), LAMBDA term :
         POk(<<stmt.node>>, term.pos)))

parse_expression(toks, pos, precedence) ==
    IF ~PPeek(toks, pos).has THEN PErr(error_eof, pos)
    ELSE IF PPeek(toks, pos).tok.token_type = "Symbol"
            /\ peek_type_is(toks, pos + 1, "ParenthesisL")
    THEN parse_method_call(toks, pos)
    ELSE parse_binary_expression(toks, pos, precedence)

parse_method_call(toks, pos) ==
    Try(digest(toks, pos, "Symbol"), LAMBDA method_name :
    Try(digest(toks, method_name.pos, "ParenthesisL"), LAMBDA lp :
    Try(parse_method_args(toks, lp.pos, <<>>), LAMBDA args :
    Try(digest(toks, args.pos, "ParenthesisR"), LAMBDA rp :
    POk(build_method_call_node(method_name.tok.value, args.node, method_name.tok.line),
        rp.pos)))))

parse_method_args(toks, pos, args) ==
    IF ~PPeek(toks, pos).has \/ PPeek(toks, pos).tok.token_type = "ParenthesisR"
    THEN POk(args, pos)
    ELSE Try(parse_expression(toks, pos, 0), LAMBDA expr :
         IF ~PPeek(toks, expr.pos).has THEN PErr(error_eof, expr.pos)
         ELSE IF PPeek(toks, expr.pos).tok.token_type # "ParenthesisR"
         THEN Try(digest(toks, expr.pos, "ArgumentSeparator"), LAMBDA sep :
              parse_method_args(toks, sep.pos, Append(args, expr.node)))
         ELSE parse_method_args(toks, expr.pos, Append(args, expr.node)))

\* the body of the loop of parse_binary_expression for the operator token peeked
binary_step(toks, pos, left, precedence, op_token, prec) ==
    IF prec[1] < precedence THEN POk(left, pos)
    ELSE Try(parse_expression(toks, pos + 1, next_precedence(prec[1], prec[2])),
             LAMBDA right :
             parse_binary_loop(toks, right.pos, build_node(op_token, left, right.node),
                               precedence))

parse_binary_loop(toks, pos, left, precedence) ==
    IF ~peek_type_is(toks, pos, "Operator") THEN POk(left, pos)
    ELSE binary_step(toks, pos, left, precedence, PPeek(toks, pos).tok,
                     operator_predecende(PPeek(toks, pos).tok))

parse_binary_expression(toks, pos, precedence) ==
    Try(parse_term(toks, pos), LAMBDA left :
    parse_binary_loop(toks, left.pos, left.node, precedence))

\* the match of parse_term on the token peeked
term_of(toks, pos, token) ==
    CASE token.token_type = "Operator" /\ token.operator_type = "Additive.Sub" ->
           Try(parse_term(toks, pos + 1), LAMBDA literal :
           POk(build_unary_node("Min", literal.node), literal.pos))
      [] token.token_type = "Operator" /\ token.operator_type = "Unary.Not" ->
           Try(parse_term(toks, pos + 1), LAMBDA literal :
           POk(build_unary_node("Not", literal.node), literal.pos))
      [] token.token_type \in {"Symbol", "StringLiteral", "BooleanLiteral", "NumeralLiteral"} ->
           POk(build_node(token, NoNode, NoNode), pos + 1)
      [] token.token_type = "ParenthesisL" ->
           Try(parse_expression(toks, pos + 1, 0), LAMBDA expr :
           Try(digest(toks, expr.pos, "ParenthesisR"), LAMBDA rp :
           POk(expr.node, rp.pos)))
      [] OTHER -> PErr(error_unrecognized_token(token), pos)

parse_term(toks, pos) ==
    IF ~PPeek(toks, pos).has THEN PErr(error_eof, pos)
    ELSE term_of(toks, pos, PPeek(toks, pos).tok)

\* Parser::parse
Parse(toks) ==
    Try(parse_block(toks, 0), LAMBDA block : POk(build_program_node(block.node), block.pos))

(***************************************************************************)
(* Value operations (interpreter/value.rs)                                  *)
(***************************************************************************)
\* the stand-in for i64::MAX in checked_add / checked_sub / checked_mul
I64Max == 32767
I64Min == -I64Max - 1

\* the characters U+0020..U+007E in code order (backslash and backtick by name)
AsciiPrintable ==
    <<" ", "!", "\"", "#", "$", "%", "&", "'", "(", ")", "*", "+",
      ",", "-", ".", "/", "0", "1", "2", "3", "4", "5", "6", "7",
      "8", "9", ":", ";", "<", "=", ">", "?", "@", "A", "B", "C",
      "D", "E", "F", "G", "H", "I", "J", "K", "L", "M", "N", "O",
      "P", "Q", "R", "S", "T", "U", "V", "W", "X", "Y", "Z", "[",
      "U+005C", "]", "^", "_", "U+0060", "a", "b", "c", "d", "e", "f", "g",
      "h", "i", "j", "k", "l", "m", "n", "o", "p", "q", "r", "s",
      "t", "u", "v", "w", "x", "y", "z", "{", "|", "}", "~">>

\* the byte value of a character, for str ordering
CharCode(c) ==
    IF c = NL THEN 10
    ELSE IF c = TAB THEN 9
    ELSE IF c = CR THEN 13
    ELSE 31 + (CHOOSE i \in 1..Len(AsciiPrintable) : AsciiPrintable[i] = c)

\* char::to_ascii_lowercase
ToAsciiLowercase(c) ==
    IF c \in Letters /\ CharCode(c) >= 65 /\ CharCode(c) <= 90
    THEN AsciiPrintable[CharCode(c) + 32 - 31] ELSE c

\* the ASCII characters of char::is_whitespace that a source text can hold
Whitespace == {" ", NL, TAB, CR}

\* str::trim
RECURSIVE TrimStart(_)
TrimStart(txt) ==
    IF txt # <<>> /\ txt[1] \in Whitespace THEN TrimStart(Tail(txt)) ELSE txt
RECURSIVE TrimEnd(_)
TrimEnd(txt) ==
    IF txt # <<>> /\ txt[Len(txt)] \in Whitespace
    THEN TrimEnd(SubSeq(txt, 1, Len(txt) - 1)) ELSE txt
Trim(txt) == TrimEnd(TrimStart(txt))

LowerText(txt) == [i \in 1..Len(txt) |-> ToAsciiLowercase(txt[i])]

DigitChar(k) == AsciiPrintable[k + 17]

\* i64::to_string
RECURSIVE NatToText(_)
NatToText(k) == IF k < 10 THEN <<DigitChar(k)>> ELSE Append(NatToText(k \div 10), DigitChar(k % 10))
IntToText(i) == IF i < 0 THEN <<"-">> \o NatToText(-i) ELSE NatToText(i)

\* the fractional digits of r/d (0 <= r < d), at most k of them
RECURSIVE FracDigits(_, _, _)
FracDigits(r, d, k) ==
    IF r = 0 \/ k = 0 THEN <<>>
    ELSE <<DigitChar((10 * r) \div d)>> \o FracDigits((10 * r) % d, d, k - 1)

\* f64::to_string, for the values the model holds
FloatToText(n, d) ==
    IF d = 0 THEN <<"N", "a", "N">>
    ELSE IF Abs(n) % d = 0 THEN IntToText(n \div d)
    ELSE (IF n < 0 THEN <<"-">> ELSE <<>>) \o NatToText(Abs(n) \div d) \o <<".">>
         \o FracDigits(Abs(n) % d, d, 16)

\* Value::to_string, as the text of the resulting Value::String
to_string(v) ==
    CASE v.t = "Integer" -> IntToText(v.n)
      [] v.t = "Float" -> FloatToText(v.n, v.d)
      [] v.t = "Boolean" -> IF v.n = 1 THEN <<"t", "r", "u", "e">> ELSE <<"f", "a", "l", "s", "e">>
      [] v.t = "Empty" -> <<>>
      [] v.t = "String" -> v.s

\* crate::error::error: print the message and std::process::exit(1)
Exit(msg) == [t |-> "Exit", n |-> 0, d |-> 1, s |-> <<msg>>]
IsExit(v) == v.t = "Exit"

AllDigits(txt) == \A i \in 1..Len(txt) : txt[i] \in Digits

\* str::parse::<i64>: an optional sign and one or more digits
ParsesAsI64(txt) ==
    LET body == IF txt # <<>> /\ txt[1] \in {"+", "-"} THEN Tail(txt) ELSE txt
    IN body # <<>> /\ AllDigits(body)
ParseI64(txt) ==
    IF txt[1] = "-" THEN -DigitsToInt(Tail(txt))
    ELSE IF txt[1] = "+" THEN DigitsToInt(Tail(txt)) ELSE DigitsToInt(txt)

\* str::parse::<f64>, for decimal texts without exponent
ParsesAsF64(txt) ==
    LET body == IF txt # <<>> /\ txt[1] \in {"+", "-"} THEN Tail(txt) ELSE txt
        dots == {i \in 1..Len(body) : body[i] = "."}
    IN /\ Cardinality(dots) <= 1
       /\ \A i \in 1..Len(body) : body[i] \in Digits \cup {"."}
       /\ \E i \in 1..Len(body) : body[i] \in Digits
ParseF64(txt) ==
    LET neg == txt[1] = "-"
        body == IF txt[1] \in {"+", "-"} THEN Tail(txt) ELSE txt
        f == DigitsToFloat(body)
    IN IF neg THEN Float(-f.n, f.d) ELSE f

\* Value::to_number
to_number(v) ==
    CASE v.t \in {"Integer", "Float"} -> v
      [] v.t = "Boolean" -> Integer(v.n)
      [] v.t = "Empty" -> Integer(0)
      [] v.t = "String" ->
           IF ParsesAsI64(v.s) THEN Integer(ParseI64(v.s))
           ELSE IF ParsesAsF64(v.s) THEN ParseF64(v.s)
           ELSE Exit("Unable to convert string to number")

\* Value::to_f64: the coerced number as a Float, or the exit of to_number
as_f64(num) == IF IsExit(num) THEN num ELSE Float(num.n, num.d)
to_f64(v) == as_f64(to_number(v))

\* Value::to_bool
\* to_bool, were the text of a String not trimmed
to_bool_untrimmed(v) ==
    CASE v.t = "Boolean" -> v.n = 1
      [] v.t = "Integer" -> v.n # 0
      [] v.t = "Float" -> v.n # 0
      [] v.t = "Empty" -> FALSE
      [] v.t = "String" ->
           LET t == LowerText(v.s) IN
           ~(t = <<>> \/ t = <<"0">> \/ t = <<"f", "a", "l", "s", "e">>)

to_bool(v) ==
    CASE v.t = "Boolean" -> v.n = 1
      [] v.t = "Integer" -> v.n # 0
      [] v.t = "Float" -> v.n # 0
      [] v.t = "Empty" -> FALSE
      [] v.t = "String" ->
           LET t == LowerText(Trim(v.s)) IN
           ~(t = <<>> \/ t = <<"0">> \/ t = <<"f", "a", "l", "s", "e">>)

and_value(a, b) == Boolean(to_bool(a) /\ to_bool(b))
or_value(a, b) == Boolean(to_bool(a) \/ to_bool(b))

\* str ordering: -1, 0 or 1
RECURSIVE TextCmp(_, _)
TextCmp(a, b) ==
    IF a = <<>> /\ b = <<>> THEN 0
    ELSE IF a = <<>> THEN -1
    ELSE IF b = <<>> THEN 1
    ELSE IF CharCode(a[1]) < CharCode(b[1]) THEN -1
    ELSE IF CharCode(a[1]) > CharCode(b[1]) THEN 1
    ELSE TextCmp(Tail(a), Tail(b))

\* the ordering of two numbers n/d, as -1, 0 or 1
NumCmp(a, b) ==
    IF a.n * b.d < b.n * a.d THEN -1 ELSE IF a.n * b.d > b.n * a.d THEN 1 ELSE 0

Numeric(v) == v.t \in {"Integer", "Float"}

\* the (self, other) match shared by eq_value, gt_value, gte_value, lt_value and
\* lte_value: holds(c) decides on the ordering c; Empty with Empty is emptyCase;
\* every other mixed pair is FALSE
CompareWith(a, b, holds(_), emptyCase) ==
    CASE Numeric(a) /\ Numeric(b) -> Boolean(holds(NumCmp(a, b)))
      [] a.t = "String" /\ b.t = "String" -> Boolean(holds(TextCmp(a.s, b.s)))
      [] a.t = "Boolean" /\ b.t = "Boolean" -> Boolean(holds(NumCmp(a, b)))
      [] a.t = "Empty" /\ b.t = "Empty" -> Boolean(emptyCase)
      [] OTHER -> Boolean(FALSE)

\* eq_value, were operands of different variants compared by their texts
eq_value_coercing(a, b) == Boolean(to_string(a) = to_string(b))
eq_value(a, b) == LET h(c) == c = 0 IN CompareWith(a, b, h, TRUE)
gt_value(a, b) == LET h(c) == c > 0 IN CompareWith(a, b, h, FALSE)
gte_value(a, b) == LET h(c) == c >= 0 IN CompareWith(a, b, h, FALSE)
lt_value(a, b) == LET h(c) == c < 0 IN CompareWith(a, b, h, FALSE)
lte_value(a, b) == LET h(c) == c <= 0 IN CompareWith(a, b, h, FALSE)
neq_value(a, b) == Boolean(eq_value(a, b).n = 0)

\* numeric_binop, were the integer op wrapping instead of checked
numeric_op_wrapping(lnum, rnum, op) ==
    LET exact(a, b) == CASE op = "add" -> a + b [] op = "sub" -> a - b [] op = "mul" -> a * b
        fl(a, b) == CASE op = "add" -> Float(a.n * b.d + b.n * a.d, a.d * b.d)
                      [] op = "sub" -> Float(a.n * b.d - b.n * a.d, a.d * b.d)
                      [] op = "mul" -> Float(a.n * b.n, a.d * b.d)
    IN IF IsExit(lnum) THEN lnum
       ELSE IF IsExit(rnum) THEN rnum
       ELSE IF lnum.t = "Integer" /\ rnum.t = "Integer"
       THEN Integer(((exact(lnum.n, rnum.n) - I64Min) % (2 * I64Max + 2)) + I64Min)
       ELSE fl(lnum, rnum)

\* Value::numeric_binop: int_op is checked (None outside i64), else the float op
numeric_op(lnum, rnum, op) ==
    LET exact(a, b) == CASE op = "add" -> a + b [] op = "sub" -> a - b [] op = "mul" -> a * b
        fl(a, b) == CASE op = "add" -> Float(a.n * b.d + b.n * a.d, a.d * b.d)
                      [] op = "sub" -> Float(a.n * b.d - b.n * a.d, a.d * b.d)
                      [] op = "mul" -> Float(a.n * b.n, a.d * b.d)
    IN IF IsExit(lnum) THEN lnum
       ELSE IF IsExit(rnum) THEN rnum
       ELSE IF lnum.t = "Integer" /\ rnum.t = "Integer"
       THEN IF exact(lnum.n, rnum.n) >= I64Min /\ exact(lnum.n, rnum.n) <= I64Max
            THEN Integer(exact(lnum.n, rnum.n))
            ELSE fl(lnum, rnum)
       ELSE fl(lnum, rnum)
numeric_binop(left, right, op) == numeric_op(to_number(left), to_number(right), op)

add_value(left, right) ==
    IF left.t = "String" \/ right.t = "String"
    THEN String(to_string(left) \o to_string(right))
    ELSE numeric_binop(left, right, "add")
sub_value(left, right) == numeric_binop(left, right, "sub")
mul_value(left, right) == numeric_binop(left, right, "mul")

\* Value::div_value on the operands as f64
div_f64(lf, rf) ==
    IF IsExit(lf) THEN lf
    ELSE IF IsExit(rf) THEN rf
    ELSE IF rf.n = 0 THEN Exit("Division by zero")
    ELSE Float(lf.n * rf.d, lf.d * rf.n)
div_value(left, right) == div_f64(to_f64(left), to_f64(right))

RECURSIVE IntPow(_, _)
IntPow(b, e) == IF e = 0 THEN 1 ELSE b * IntPow(b, e - 1)

\* a Float the model cannot hold exactly (an irrational or infinite powf result)
FloatOutOfModel == [t |-> "Float", n |-> 0, d |-> 0, s |-> <<>>]

\* Value::power: f64::powf, exact for integral exponents
powf(lf, rf) ==
    IF IsExit(lf) THEN lf
    ELSE IF IsExit(rf) THEN rf
    ELSE IF rf.d # 1 \/ lf.d = 0 THEN FloatOutOfModel
    ELSE IF rf.n >= 0 THEN Float(IntPow(lf.n, rf.n), IntPow(lf.d, rf.n))
    ELSE IF lf.n = 0 THEN FloatOutOfModel
    ELSE Float(IntPow(lf.d, -rf.n), IntPow(lf.n, -rf.n))
power(left, right) == powf(to_f64(left), to_f64(right))

(***************************************************************************)
(* Pipeline state and the lexer / parser steps                              *)
(***************************************************************************)
Idle == [mode |-> "idle", fn |-> "", node |-> NoNode, flow |-> "", val |-> NoValue]
Call(fn, node) == [mode |-> "call", fn |-> fn, node |-> node, flow |-> "", val |-> NoValue]
RetFlow(flow) == [mode |-> "ret", fn |-> "", node |-> NoNode, flow |-> flow, val |-> NoValue]
RetVal(v) == [mode |-> "ret", fn |-> "", node |-> NoNode, flow |-> "", val |-> v]

\* a pending activation of a routine of core.rs and its locals
Frame(pc, node) ==
    [pc |-> pc, node |-> node, idx |-> 0, vals |-> <<>>, val |-> NoValue,
     saved |-> 0, decl |-> NoNode, entry |-> <<>>]

\* scope::Scope; parent -1 is Option::None
Scope(parent) == [parent |-> parent, variables |-> <<>>, functions |-> <<>>]

\* ExecutionContext::new (with ScopeArena::new and new_scope(None)) and the
\* locals of the stages that have not started
StartState(prog, toks, ph) ==
    /\ program = prog
    /\ lx = LexStart
    /\ tokens = toks
    /\ ast = NoNode
    /\ phase = ph
    /\ outcome = "pending"
    /\ error = NoError
    /\ ctl = Idle
    /\ kont = <<>>
    /\ scopes = <<Scope(-1)>>
    /\ current_scope = 0
    /\ call_stack = <<>>
    /\ function_depth = 0
    /\ return_values = <<>>
    /\ output = <<>>

evalVars == <<ctl, kont, scopes, current_scope, call_stack, function_depth,
              return_values, output>>

\* one iteration of the loop of TokenParser::parse; Err and a panic return no vector
LexStep ==
    /\ phase = "lex"
    /\ lx.pos < Len(program)
    /\ LET r == LexOne(program, lx) IN
       /\ lx' = r.cur
       /\ tokens' = IF r.status = "ok" THEN tokens \o r.toks ELSE <<>>
       /\ phase' = IF r.status = "ok" THEN "lex" ELSE "done"
       /\ outcome' = CASE r.status = "ok" -> "pending"
                       [] r.status = "err" -> "lex_error"
                       [] r.status = "panic" -> "panic"
       /\ error' = r.err
    /\ UNCHANGED <<program, ast>>
    /\ UNCHANGED evalVars

\* the end of TokenParser::parse: push Eof and return Ok(tokens)
LexFinish ==
    /\ phase = "lex"
    /\ lx.pos >= Len(program)
    /\ tokens' = Append(tokens, Token("Eof", "None", "None", <<>>, lx.pos, lx.pos, lx.line))
    /\ phase' = "parse"
    /\ UNCHANGED <<program, lx, ast, outcome, error>>
    /\ UNCHANGED evalVars

\* Parser::new(tokens).parse(), then Interpreter::run(Some(ast)) is entered
ParseStep ==
    /\ phase = "parse"
    /\ LET r == Parse(tokens) IN
       /\ ast' = r.node
       /\ phase' = IF r.ok THEN "run" ELSE "done"
       /\ outcome' = IF r.ok THEN "pending" ELSE "parse_error"
       /\ error' = r.err
       /\ ctl' = IF r.ok THEN Call("evaluate", r.node) ELSE Idle
       /\ kont' = IF r.ok THEN <<Frame("run", NoNode)>> ELSE <<>>
    /\ UNCHANGED <<program, lx, tokens, scopes, current_scope, call_stack,
                   function_depth, return_values, output>>

(***************************************************************************)
(* ExecutionContext, ScopeArena and CallStack.  m is the evaluator's state  *)
(* as one record; the operations return the state they leave.               *)
(***************************************************************************)
Machine ==
    [ctl |-> ctl, kont |-> kont, scopes |-> scopes, current_scope |-> current_scope,
     call_stack |-> call_stack, function_depth |-> function_depth,
     return_values |-> return_values, output |-> output,
     outcome |-> outcome, error |-> error]

Install(m) ==
    /\ ctl' = m.ctl
    /\ kont' = m.kont
    /\ scopes' = m.scopes
    /\ current_scope' = m.current_scope
    /\ call_stack' = m.call_stack
    /\ function_depth' = m.function_depth
    /\ return_values' = m.return_values
    /\ output' = m.output
    /\ outcome' = m.outcome
    /\ error' = m.error
    /\ phase' = IF m.outcome = "pending" THEN "run" ELSE "done"
    /\ UNCHANGED <<program, lx, tokens, ast>>

Last(q) == q[Len(q)]
Front(q) == SubSeq(q, 1, Len(q) - 1)

\* new_scope, were the parent not recorded
new_scope_without_parent(arena, parent) == Append(arena, Scope(-1))

\* ScopeArena::new_scope: the new scope's ID is the old length
new_scope(arena, parent) == Append(arena, Scope(parent))

\* ScopeArena::define_variable / define_function (HashMap::insert overwrites)
define_variable(arena, scope_id, name, value) ==
    [arena EXCEPT ![scope_id + 1].variables = (name :> value) @@ @]
define_function(arena, scope_id, name, function) ==
    [arena EXCEPT ![scope_id + 1].functions = (name :> function) @@ @]

\* ScopeArena::lookup_variable: [found, value]
RECURSIVE lookup_variable(_, _, _)
lookup_variable(arena, scope_id, name) ==
    IF scope_id < 0 \/ scope_id >= Len(arena) THEN [found |-> FALSE, value |-> NoValue]
    ELSE LET scope == arena[scope_id + 1] IN
         IF name \in DOMAIN scope.variables
         THEN [found |-> TRUE, value |-> scope.variables[name]]
         ELSE IF scope.parent # -1 THEN lookup_variable(arena, scope.parent, name)
         ELSE [found |-> FALSE, value |-> NoValue]

\* ScopeArena::lookup_function: [found, function]
RECURSIVE lookup_function(_, _, _)
lookup_function(arena, scope_id, name) ==
    IF scope_id < 0 \/ scope_id >= Len(arena) THEN [found |-> FALSE, function |-> NoNode]
    ELSE LET scope == arena[scope_id + 1] IN
         IF name \in DOMAIN scope.functions
         THEN [found |-> TRUE, function |-> scope.functions[name]]
         ELSE IF scope.parent # -1 THEN lookup_function(arena, scope.parent, name)
         ELSE [found |-> FALSE, function |-> NoNode]

\* an enter_new_scope that allocates the scope and stays in the current one
enter_new_scope_stay(m) == [m EXCEPT !.scopes = new_scope(m.scopes, m.current_scope)]

\* ExecutionContext::enter_new_scope; the caller keeps m.current_scope as parent_scope
enter_new_scope(m) ==
    [m EXCEPT !.scopes = new_scope(m.scopes, m.current_scope),
              !.current_scope = Len(m.scopes)]

restore_scope(m, scope) == [m EXCEPT !.current_scope = scope]

define_variable_in_scope(m, identifier, value) ==
    [m EXCEPT !.scopes = define_variable(m.scopes, m.current_scope, identifier, value)]

define_function_in_scope(m, identifier, node) ==
    [m EXCEPT !.scopes = define_function(m.scopes, m.current_scope, identifier, node)]

\* enter_function, were no return slot pushed
enter_function_without_slot(m) == [m EXCEPT !.function_depth = @ + 1]

enter_function(m) ==
    [m EXCEPT !.function_depth = @ + 1, !.return_values = Append(@, NoValue)]

\* exit_function_with_return, were the depth left as it is
exit_function_with_return_keeping_depth(m) ==
    IF m.function_depth = 0 THEN [value |-> NoValue, m |-> m]
    ELSE [value |-> IF m.return_values = <<>> THEN NoValue ELSE Last(m.return_values),
          m |-> [m EXCEPT !.return_values = IF @ = <<>> THEN @ ELSE Front(@)]]

\* ExecutionContext::exit_function_with_return: [value, m]
exit_function_with_return(m) ==
    IF m.function_depth = 0 THEN [value |-> NoValue, m |-> m]
    ELSE [value |-> IF m.return_values = <<>> THEN NoValue ELSE Last(m.return_values),
          m |-> [m EXCEPT !.function_depth = @ - 1,
                          !.return_values = IF @ = <<>> THEN @ ELSE Front(@)]]

is_in_function(m) == m.function_depth > 0

\* CallStack::push / pop through ExecutionContext::push_frame / pop_frame
StackFrame(name, location) == [function |-> name, location |-> location]
push_frame(m, name, location) ==
    [m EXCEPT !.call_stack = Append(@, StackFrame(name, location))]
pop_frame(m) ==
    [m EXCEPT !.call_stack = IF @ = <<>> THEN @ ELSE Front(@)]

\* RuntimeError::new
RuntimeError(msg, arg) ==
    [kind |-> "RuntimeError", msg |-> msg, arg |-> arg, token |-> NoToken,
     line |-> 0, column |-> 0, stack |-> <<>>]

\* CallStack::attach_to_error: with_frame for each frame, outermost first
attach_stack(m, err) == [err EXCEPT !.stack = @ \o m.call_stack]

\* Interpreter::error_with_stack
error_with_stack(m, msg, arg) == attach_stack(m, RuntimeError(msg, arg))

\* an Err returned through every `?` up to Interpreter::run
Fail(m, err) ==
    [m EXCEPT !.outcome = "runtime_error", !.error = err, !.ctl = Idle, !.kont = <<>>]
\* panic!, unreachable!
Panic(m) == [m EXCEPT !.outcome = "panic", !.ctl = Idle, !.kont = <<>>]
\* crate::error::error
ProcessExit(m) == [m EXCEPT !.outcome = "exit", !.ctl = Idle, !.kont = <<>>]

\* set_return_value, were the value written to the slot of every activation
set_return_value_every_slot(m, value) ==
    IF m.return_values = <<>> THEN Panic(m)
    ELSE [m EXCEPT !.return_values = [i \in 1..Len(m.return_values) |-> value]]

\* ExecutionContext::set_return_value
set_return_value(m, value) ==
    IF m.return_values = <<>> THEN Panic(m)
    ELSE [m EXCEPT !.return_values[Len(m.return_values)] = value]

Push(m, frame) == [m EXCEPT !.kont = Append(@, frame)]
Pop(m) == [m EXCEPT !.kont = Front(@)]
Top(m) == Last(m.kont)
Go(m, c) == [m EXCEPT !.ctl = c]

(***************************************************************************)
(* Native functions (interpreter/methods, tests/harness.rs)                 *)
(***************************************************************************)
RECURSIVE ConcatTexts(_)
ConcatTexts(args) ==
    IF args = <<>> THEN <<>> ELSE to_string(args[1]) \o ConcatTexts(Tail(args))

Name_print == <<"p", "r", "i", "n", "t">>
Name_println == <<"p", "r", "i", "n", "t", "l", "n">>
Name_readln == <<"r", "e", "a", "d", "l", "n">>
Name_str_concat == <<"s", "t", "r", "_", "c", "o", "n", "c", "a", "t">>
Name_to_number == <<"t", "o", "_", "n", "u", "m", "b", "e", "r">>
Name_sin == <<"s", "i", "n">>
Name_cos == <<"c", "o", "s">>
Name_assert == <<"a", "s", "s", "e", "r", "t">>

NativeOk(v, out) == [status |-> "ok", val |-> v, err |-> NoError, out |-> out]
NativeErr(e) == [status |-> "err", val |-> NoValue, err |-> e, out |-> <<>>]
NativeExit == [status |-> "exit", val |-> NoValue, err |-> NoError, out |-> <<>>]
Effect(kind, text, passed) == [kind |-> kind, text |-> text, passed |-> passed]

\* takes_arguments!(args, 1)
Expected1(args) == RuntimeError("Expected 1 parameter, found {}", <<IntToText(Len(args))>>)

\* fn_to_number
NativeValue(r) == IF IsExit(r) THEN NativeExit ELSE NativeOk(r, <<>>)
fn_to_number(args) ==
    IF Len(args) # 1 THEN NativeErr(Expected1(args))
    ELSE NativeValue(IF args[1].t = "String" /\ args[1].s = <<>> THEN Integer(0)
                     ELSE to_number(args[1]))

\* fn_sin / fn_cos, exact at 0
trig_of(number, at_zero) ==
    IF IsExit(number) THEN NativeExit
    ELSE IF number.n = 0 /\ number.d = 1 THEN NativeOk(Float(at_zero, 1), <<>>)
    ELSE NativeOk(FloatOutOfModel, <<>>)
fn_trig(args, at_zero) ==
    IF Len(args) # 1 THEN NativeErr(Expected1(args)) ELSE trig_of(to_f64(args[1]), at_zero)

\* fn_assert of the test harness
fn_assert(args) ==
    IF Len(args) # 2
    THEN NativeErr(RuntimeError("assert expects 2 arguments, got {}", <<IntToText(Len(args))>>))
    ELSE LET message == to_string(args[1])
             passed == to_bool(args[2])
         IN IF passed THEN NativeOk(Empty, <<Effect("assert", message, TRUE)>>)
            ELSE [status |-> "err", val |-> NoValue, err |-> RuntimeError("{}", <<message>>),
                  out |-> <<Effect("assert", message, FALSE)>>]

\* methods::get_method over the registered natives; readln reads an empty stdin
get_method(name, args) ==
    CASE name = Name_print -> NativeOk(Empty, <<Effect("print", ConcatTexts(args), TRUE)>>)
      [] name = Name_println -> NativeOk(Empty, <<Effect("println", ConcatTexts(args), TRUE)>>)
      [] name = Name_readln -> NativeOk(String(<<>>), <<Effect("print", ConcatTexts(args), TRUE)>>)
      [] name = Name_str_concat -> NativeOk(String(ConcatTexts(args)), <<>>)
      [] name = Name_to_number -> fn_to_number(args)
      [] name = Name_sin -> fn_trig(args, 0)
      [] name = Name_cos -> fn_trig(args, 1)
      [] name = Name_assert -> fn_assert(args)
      [] OTHER -> NativeErr(RuntimeError("Method not found: {}", <<name>>))

(***************************************************************************)
(* Interpreter (interpreter/core.rs).  A routine runs from its entry, or    *)
(* from the return of a call it made, up to the next call it makes or to    *)
(* its own return.  ctl is the call or return in flight, kont the pending   *)
(* activations, innermost last.                                             *)
(***************************************************************************)

\* Interpreter::evaluate_return up to the evaluation of the returned expression
evaluate_return(m, node) ==
    IF is_in_function(m)
    THEN Go(Push(m, Frame("evaluate_return", node)), Call("evaluate_expression", node[2]))
    ELSE Fail(m, error_with_stack(m, "Attempting to return outside a function block", <<>>))

\* Interpreter::evaluate_statement up to its call
evaluate_statement(m, node) ==
    CASE node[1] = "Statement" -> Go(m, Call("evaluate", node[2]))
      [] node[1] = "Declaration" ->
           Go(Push(m, Frame("evaluate_assignment", node)), Call("evaluate_expression", node[3]))
      [] node[1] = "FunctionCall" ->
           Go(Push(m, Frame("evaluate_statement.FunctionCall", node)),
              Call("evaluate_function_call", node))
      [] OTHER -> Fail(m, error_with_stack(m, "Unexpected AST node", <<>>))

\* Interpreter::evaluate_conditional up to the evaluation of the condition
evaluate_conditional(m, node) ==
    Go(Push(m, Frame("evaluate_conditional.condition", node)),
       Call("evaluate_expression", node[2]))

\* Interpreter::evaluate_function_definition
evaluate_function_definition(m, node) ==
    define_function_in_scope(m, node[2], node)

\* Interpreter::evaluate, the match on the node
evaluate(m) ==
    LET node == m.ctl.node IN
    CASE node[1] = "Program" -> Go(m, Call("evaluate_block", node[2]))
      [] node[1] = "BinaryOperation" ->
           Go(Push(m, Frame("evaluate.BinaryOperation", node)), Call("evaluate_expression", node))
      [] node[1] \in {"Statement", "Declaration", "FunctionCall"} -> evaluate_statement(m, node)
      [] node[1] = "IfConditional" -> evaluate_conditional(m, node)
      [] node[1] = "Return" -> evaluate_return(m, node)
      [] node[1] = "FunctionDeclaration" ->
           Go(evaluate_function_definition(m, node), RetFlow("Continue"))
      [] OTHER -> Panic(m)

\* block_next, were the parent scope restored only when the loop ran to its end
block_next_leaving_on_break(m, i, break_invoked) ==
    LET f == Top(m) IN
    IF break_invoked THEN Go(Pop(m), RetFlow("Break"))
    ELSE IF i > Len(f.node) THEN Go(Pop(restore_scope(m, f.saved)), RetFlow("Continue"))
    ELSE Go([m EXCEPT !.kont[Len(m.kont)].idx = i], Call("evaluate", f.node[i]))

\* the loop of Interpreter::evaluate_block at statement i, and what follows the loop
block_next(m, i, break_invoked) ==
    LET f == Top(m) IN
    IF break_invoked \/ i > Len(f.node)
    THEN Go(Pop(restore_scope(m, f.saved)),
            RetFlow(IF break_invoked THEN "Break" ELSE "Continue"))
    ELSE Go([m EXCEPT !.kont[Len(m.kont)].idx = i], Call("evaluate", f.node[i]))

\* Interpreter::evaluate_block from its entry; entry records the arena on entry
evaluate_block(m) ==
    LET block == m.ctl.node
        parent_scope == m.current_scope
        frame == [Frame("evaluate_block", block) EXCEPT !.saved = parent_scope,
                                                        !.entry = m.scopes]
    IN block_next(Push(enter_new_scope(m), frame), 1, FALSE)

\* Interpreter::evaluate_block after a statement has been evaluated
resume_block(m) == block_next(m, Top(m).idx + 1, m.ctl.flow = "Break")

\* Interpreter::evaluate_expression from its entry
evaluate_expression(m) ==
    LET node == m.ctl.node IN
    CASE node[1] = "Identifier" ->
           LET result == lookup_variable(m.scopes, m.current_scope, node[2]) IN
           IF result.found THEN Go(m, RetVal(result.value))
           ELSE Fail(m, error_with_stack(m, "Undefined variable {}", <<node[2]>>))
      [] node[1] = "Literal" -> Go(m, RetVal(node[2]))
      [] node[1] = "FunctionCall" -> Go(m, Call("evaluate_function_call", node))
      [] node[1] = "UnaryOperation" ->
           Go(Push(m, Frame("evaluate_expression.UnaryOperation", node)),
              Call("evaluate_expression", node[3]))
      [] node[1] = "BinaryOperation" ->
           Go(Push(m, Frame("evaluate_expression.BinaryOperation.left", node)),
              Call("evaluate_expression", node[2]))
      [] OTHER -> Fail(m, error_with_stack(m, "Unrecognized node {:?}", <<>>))

\* a Value computed by value.rs, or the process exit its error() call makes
ReturnValue(m, v) == IF IsExit(v) THEN ProcessExit(m) ELSE Go(m, RetVal(v))

\* Interpreter::evaluate_expression, UnaryOperation after its operand
resume_unary(m) ==
    LET operator == Top(m).node[2]
        val == m.ctl.val
    IN CASE operator = "Unary.Min" -> ReturnValue(Pop(m), mul_value(Float(-1, 1), val))
         [] operator = "Unary.Not" -> Go(Pop(m), RetVal(Boolean(~to_bool(val))))
         [] OTHER -> Panic(m)

\* Interpreter::evaluate_expression, BinaryOperation after its left operand
resume_binary_left(m) ==
    LET node == Top(m).node
        op == node[3]
        left_val == m.ctl.val
        right == Go([m EXCEPT !.kont[Len(m.kont)].pc = "evaluate_expression.BinaryOperation.right",
                              !.kont[Len(m.kont)].val = left_val],
                    Call("evaluate_expression", node[4]))
    IN CASE op = "Boolean.And" /\ ~to_bool(left_val) -> Go(Pop(m), RetVal(Boolean(FALSE)))
         [] op = "Boolean.Or" /\ to_bool(left_val) -> Go(Pop(m), RetVal(Boolean(TRUE)))
         [] OTHER -> right

\* the match on the operator of a BinaryOperation with both operands evaluated
binary_operation(op, left_val, right_val) ==
    CASE op = "Boolean.And" -> and_value(left_val, right_val)
      [] op = "Boolean.Or" -> or_value(left_val, right_val)
      [] op = "Exponential" -> power(left_val, right_val)
      [] op = "Multiplicative.Mul" -> mul_value(left_val, right_val)
      [] op = "Multiplicative.Div" -> div_value(left_val, right_val)
      [] op = "Additive.Sub" -> sub_value(left_val, right_val)
      [] op = "Additive.Add" -> add_value(left_val, right_val)
      [] op = "Comp.Eq" -> eq_value(left_val, right_val)
      [] op = "Comp.Neq" -> neq_value(left_val, right_val)
      [] op = "Comp.Gt" -> gt_value(left_val, right_val)
      [] op = "Comp.Lt" -> lt_value(left_val, right_val)
      [] op = "Comp.Gte" -> gte_value(left_val, right_val)
      [] op = "Comp.Lte" -> lte_value(left_val, right_val)

\* Interpreter::evaluate_expression, BinaryOperation after its right operand
resume_binary_right(m) ==
    LET op == Top(m).node[3]
        left_val == Top(m).val
        right_val == m.ctl.val
    IN IF op \in {"Unary.Not", "Unary.Min"}
       THEN Fail(m, error_with_stack(m, "Unary operation unexpected", <<>>))
       ELSE IF op = "None" THEN Panic(m)
       ELSE ReturnValue(Pop(m), binary_operation(op, left_val, right_val))

\* the zip of parameters and argument values, defined in order in the current scope
RECURSIVE define_parameters(_, _, _, _)
define_parameters(m, param_names, evaluated_args, i) ==
    IF i > Len(param_names) \/ i > Len(evaluated_args) THEN m
    ELSE define_parameters(define_variable_in_scope(m, param_names[i], evaluated_args[i]),
                           param_names, evaluated_args, i + 1)

\* call_function, were the number of arguments compared after the scope of the
\* call has been entered and its frame pushed
call_function_checking_late(m) ==
    LET f == Top(m)
        node == f.node
        method_name == node[2]
        param_names == f.decl[3]
        block == f.decl[4]
        evaluated_args == f.vals
        parent_scope == m.current_scope
        m1 == define_parameters(enter_new_scope(m), param_names, evaluated_args, 1)
        m2 == enter_function(push_frame(m1, method_name, node[4]))
    IN IF Len(param_names) # Len(evaluated_args)
       THEN Fail(m2, error_with_stack(m, "Function '{}' expected {} arguments, got {}",
                      <<method_name, IntToText(Len(param_names)),
                        IntToText(Len(evaluated_args))>>))
       ELSE Go([m2 EXCEPT !.kont[Len(m.kont)].pc = "evaluate_function_call.block",
                          !.kont[Len(m.kont)].saved = parent_scope],
               Call("evaluate_block", block))

\* call_function, were the scope of the parameters a child of a scope that holds
\* the declaration of the function
call_function_from_declaration(m) ==
    LET f == Top(m)
        node == f.node
        method_name == node[2]
        param_names == f.decl[3]
        block == f.decl[4]
        evaluated_args == f.vals
        parent_scope == m.current_scope
        declared == CHOOSE id \in 0..(Len(m.scopes) - 1) :
                        /\ method_name \in DOMAIN m.scopes[id + 1].functions
                        /\ m.scopes[id + 1].functions[method_name] = f.decl
        entered == [m EXCEPT !.scopes = new_scope(m.scopes, declared),
                             !.current_scope = Len(m.scopes)]
        m1 == define_parameters(entered, param_names, evaluated_args, 1)
        m2 == enter_function(push_frame(m1, method_name, node[4]))
    IN IF Len(param_names) # Len(evaluated_args)
       THEN Fail(m, error_with_stack(m, "Function '{}' expected {} arguments, got {}",
                      <<method_name, IntToText(Len(param_names)),
                        IntToText(Len(evaluated_args))>>))
       ELSE Go([m2 EXCEPT !.kont[Len(m.kont)].pc = "evaluate_function_call.block",
                          !.kont[Len(m.kont)].saved = parent_scope],
               Call("evaluate_block", block))

\* Interpreter::evaluate_function_call, declared function, after evaluate_arguments
call_function(m) ==
    LET f == Top(m)
        node == f.node
        method_name == node[2]
        param_names == f.decl[3]
        block == f.decl[4]
        evaluated_args == f.vals
        parent_scope == m.current_scope
        m1 == define_parameters(enter_new_scope(m), param_names, evaluated_args, 1)
        m2 == enter_function(push_frame(m1, method_name, node[4]))
    IN IF Len(param_names) # Len(evaluated_args)
       THEN Fail(m, error_with_stack(m, "Function '{}' expected {} arguments, got {}",
                      <<method_name, IntToText(Len(param_names)),
                        IntToText(Len(evaluated_args))>>))
       ELSE Go([m2 EXCEPT !.kont[Len(m.kont)].pc = "evaluate_function_call.block",
                          !.kont[Len(m.kont)].saved = parent_scope],
               Call("evaluate_block", block))

\* Interpreter::evaluate_function_call, no declared function, after evaluate_arguments
native_result(m1, result) ==
    CASE result.status = "exit" -> ProcessExit(m1)
      [] result.status = "err" -> Fail(m1, attach_stack(m1, result.err))
      [] result.status = "ok" -> Go(Pop(m1), RetVal(result.val))
native_effects(m, result) ==
    native_result(pop_frame([m EXCEPT !.output = @ \o result.out]), result)
call_native(m) == native_effects(m, get_method(Top(m).node[2], Top(m).vals))

\* the loop of Interpreter::evaluate_arguments at argument i, and the code after it
arguments_next(m, i) ==
    LET f == Top(m)
        args == f.node[3]
    IN IF i > Len(args)
       THEN IF f.pc = "evaluate_function_call.arguments" THEN call_function(m)
            ELSE call_native(m)
       ELSE Go([m EXCEPT !.kont[Len(m.kont)].idx = i], Call("evaluate_expression", args[i]))

\* evaluate_function_call, were the native registry consulted before the scopes
evaluate_function_call_native_first(m) ==
    LET node == m.ctl.node
        method_name == node[2]
        function == lookup_function(m.scopes, m.current_scope, method_name)
        registered == get_method(method_name, <<>>).err.msg # "Method not found: {}"
    IN IF function.found /\ ~registered
       THEN arguments_next(
                Push(m, [Frame("evaluate_function_call.arguments", node)
                            EXCEPT !.decl = function.function]), 1)
       ELSE arguments_next(
                Push(push_frame(m, method_name, node[4]),
                     Frame("evaluate_function_call.native_arguments", node)), 1)

\* Interpreter::evaluate_function_call from its entry
evaluate_function_call(m) ==
    LET node == m.ctl.node
        method_name == node[2]
        function == lookup_function(m.scopes, m.current_scope, method_name)
    IN IF function.found
       THEN arguments_next(
                Push(m, [Frame("evaluate_function_call.arguments", node)
                            EXCEPT !.decl = function.function]), 1)
       ELSE arguments_next(
                Push(push_frame(m, method_name, node[4]),
                     Frame("evaluate_function_call.native_arguments", node)), 1)

\* Interpreter::evaluate_arguments after an argument has been evaluated
resume_arguments(m) ==
    arguments_next([m EXCEPT !.kont[Len(m.kont)].vals = Append(@, m.ctl.val)],
                   Top(m).idx + 1)

\* Interpreter::evaluate_function_call after the block of the function
resume_function_block(m) ==
    LET f == Top(m)
        exit == exit_function_with_return(m)
        return_value == IF exit.value = NoValue THEN Integer(0) ELSE exit.value
    IN Go(Pop(restore_scope(pop_frame(exit.m), f.saved)), RetVal(return_value))

\* the nearest scope from scope_id up that binds name, scope_id itself if none does
RECURSIVE binding_scope(_, _, _, _)
binding_scope(arena, scope_id, name, start) ==
    IF name \in DOMAIN arena[scope_id + 1].variables THEN scope_id
    ELSE IF arena[scope_id + 1].parent = -1 THEN start
    ELSE binding_scope(arena, arena[scope_id + 1].parent, name, start)

\* evaluate_assignment, were the value stored in the nearest scope that binds the name
resume_assignment_updating(m) ==
    LET name == Top(m).node[2]
        target == binding_scope(m.scopes, m.current_scope, name, m.current_scope)
    IN Go(Pop([m EXCEPT !.scopes = define_variable(m.scopes, target, name, m.ctl.val)]),
          RetFlow("Continue"))

\* Interpreter::evaluate_assignment after the expression
resume_assignment(m) ==
    Go(Pop(define_variable_in_scope(m, Top(m).node[2], m.ctl.val)), RetFlow("Continue"))

\* Interpreter::evaluate_conditional after the condition
resume_condition(m) ==
    LET node == Top(m).node
        if_block == node[3]
        else_block == node[4]
        inBlock == [m EXCEPT !.kont[Len(m.kont)].pc = "evaluate_conditional.block"]
    IN IF to_bool(m.ctl.val) THEN Go(inBlock, Call("evaluate_block", if_block))
       ELSE IF else_block.some THEN Go(inBlock, Call("evaluate_block", else_block.block))
       ELSE Go(Pop(m), RetFlow("Continue"))

\* Interpreter::evaluate, IfConditional arm, after evaluate_conditional: the flow
\* of the block is dropped
resume_conditional_block(m) == Go(Pop(m), RetFlow("Continue"))

\* Interpreter::evaluate_return after the expression, and the Return arm of evaluate
resume_return(m) ==
    LET m1 == set_return_value(m, m.ctl.val) IN
    IF m1.outcome = "panic" THEN m1 ELSE Go(Pop(m1), RetFlow("Break"))

\* Interpreter::evaluate_statement, FunctionCall arm, and
\* Interpreter::evaluate, BinaryOperation arm, after the expression
resume_discard(m) == Go(Pop(m), RetFlow("Continue"))

\* Interpreter::run after evaluate
resume_run(m) == [Pop(m) EXCEPT !.ctl = Idle, !.outcome = "ok"]

Calling(fn) == phase = "run" /\ ctl.mode = "call" /\ ctl.fn = fn
Returning(pcs) == phase = "run" /\ ctl.mode = "ret" /\ kont # <<>> /\ Last(kont).pc \in pcs

Evaluate == Calling("evaluate") /\ Install(evaluate(Machine))
EvaluateBlock == Calling("evaluate_block") /\ Install(evaluate_block(Machine))
EvaluateExpression == Calling("evaluate_expression") /\ Install(evaluate_expression(Machine))
EvaluateFunctionCall ==
    Calling("evaluate_function_call") /\ Install(evaluate_function_call(Machine))
ResumeBlock == Returning({"evaluate_block"}) /\ Install(resume_block(Machine))
ResumeUnary ==
    Returning({"evaluate_expression.UnaryOperation"}) /\ Install(resume_unary(Machine))
ResumeBinaryLeft ==
    Returning({"evaluate_expression.BinaryOperation.left"}) /\ Install(resume_binary_left(Machine))
ResumeBinaryRight ==
    Returning({"evaluate_expression.BinaryOperation.right"})
    /\ Install(resume_binary_right(Machine))
ResumeArguments ==
    Returning({"evaluate_function_call.arguments", "evaluate_function_call.native_arguments"})
    /\ Install(resume_arguments(Machine))
ResumeFunctionBlock ==
    Returning({"evaluate_function_call.block"}) /\ Install(resume_function_block(Machine))
ResumeAssignment == Returning({"evaluate_assignment"}) /\ Install(resume_assignment(Machine))
ResumeCondition ==
    Returning({"evaluate_conditional.condition"}) /\ Install(resume_condition(Machine))
ResumeConditionalBlock ==
    Returning({"evaluate_conditional.block"}) /\ Install(resume_conditional_block(Machine))
ResumeReturn == Returning({"evaluate_return"}) /\ Install(resume_return(Machine))
ResumeDiscard ==
    Returning({"evaluate_statement.FunctionCall", "evaluate.BinaryOperation"})
    /\ Install(resume_discard(Machine))
ResumeRun == Returning({"run"}) /\ Install(resume_run(Machine))


(***************************************************************************)
(* Lexer inputs: every text over LexAlphabet of at most MaxSrcLen chars     *)
(***************************************************************************)
MaxSrcLen == 4
LexAlphabet == {DQUOTE, "a", "1", ".", " ", ";"}

RECURSIVE TextsUpTo(_, _)
TextsUpTo(alphabet, n) ==
    IF n = 0 THEN {<<>>}
    ELSE LET shorter == TextsUpTo(alphabet, n - 1) IN
         shorter \cup {Append(t, c) : t \in {u \in shorter : Len(u) = n - 1}, c \in alphabet}

\* the text of the test malformed_numerical_values_should_not_pass
Ex_10_dot_dot_1 == <<"1", "0", ".", ".", "1">>

LexInit ==
    \E src \in TextsUpTo(LexAlphabet, MaxSrcLen) \cup {Ex_10_dot_dot_1} :
        StartState(src, <<>>, "lex")
LexNext == LexStep \/ LexFinish
LexSpec == LexInit /\ [][LexNext]_vars

(***************************************************************************)
(* Parser inputs: token vectors the lexer returns for generated texts       *)
(***************************************************************************)
MaxTerms == 3
TermTexts == {<<"a">>, <<"2">>, <<"(", "b", " ", "-", " ", "1", ")">>}
SimpleTermTexts == {<<"a">>, <<"2">>}
ArithOpTexts == {<<"+">>, <<"-">>, <<"*">>, <<"/">>, <<"^">>}
CompOpTexts == {<<"=", "=">>, <<"!", "=">>, <<"<">>, <<"<", "=">>, <<">">>, <<">", "=">>}

\* expressions `t op t op ... t` of exactly n terms
RECURSIVE ExprTexts(_, _, _)
ExprTexts(terms, ops, n) ==
    IF n = 1 THEN terms
    ELSE {e \o <<" ">> \o o \o <<" ">> \o t : e \in ExprTexts(terms, ops, n - 1), o \in ops, t \in terms}

\* `let r = <expression>;`
LetText(e) == <<"l", "e", "t", " ", "r", " ", "=", " ">> \o e \o <<";">>

ArithTexts == UNION {ExprTexts(TermTexts, ArithOpTexts, n) : n \in 1..MaxTerms}

\* `t op t cmp t op t` and `t op t cmp t`
CompTexts ==
    {a \o <<" ">> \o o1 \o <<" ">> \o b \o <<" ">> \o cmp \o <<" ">> \o c \o <<" ">> \o o2 \o <<" ">> \o d :
        a \in SimpleTermTexts, b \in SimpleTermTexts, c \in SimpleTermTexts, d \in {<<"3">>},
        o1 \in {<<"+">>, <<"*">>}, o2 \in {<<"+">>}, cmp \in CompOpTexts}
    \cup
    {a \o <<" ">> \o o1 \o <<" ">> \o b \o <<" ">> \o cmp \o <<" ">> \o c :
        a \in SimpleTermTexts, b \in SimpleTermTexts, c \in SimpleTermTexts,
        o1 \in {<<"+">>, <<"*">>}, cmp \in CompOpTexts}

\* the expressions named in the specification's examples
Ex_1_plus_2_times_3 == <<"1", " ", "+", " ", "2", " ", "*", " ", "3">>
Ex_10_minus_3_minus_2 == <<"1", "0", " ", "-", " ", "3", " ", "-", " ", "2">>
Ex_2_pow_3_pow_2 == <<"2", " ", "^", " ", "3", " ", "^", " ", "2">>
Ex_parens == <<"(", "1", " ", "+", " ", "2", ")", " ", "*", " ", "(", "3", " ", "+", " ", "4", ")">>
Ex_1_plus_2_eq_3 == <<"1", " ", "+", " ", "2", " ", "=", "=", " ", "3">>
ExampleTexts == {Ex_1_plus_2_times_3, Ex_10_minus_3_minus_2, Ex_2_pow_3_pow_2, Ex_parens,
                 Ex_1_plus_2_eq_3}

ExpressionSources == {LetText(e) : e \in ArithTexts \cup CompTexts \cup ExampleTexts}

(***************************************************************************)
(* The whole pipeline of main.rs over source programs: TokenParser::parse,  *)
(* Parser::parse, Interpreter::run.                                         *)
(***************************************************************************)
\* func f() { if (true) { return 1; } return 2; } let r = f();
Src_return_in_if ==
    <<"f", "u", "n", "c", " ", "f", "(", ")", " ", "{", " ", "i", "f", " ", "(", "t", "r", "u",
      "e", ")", " ", "{", " ", "r", "e", "t", "u", "r", "n", " ", "1", ";", " ", "}", " ", "r",
      "e", "t", "u", "r", "n", " ", "2", ";", " ", "}", " ", "l", "e", "t", " ", "r", " ", "=",
      " ", "f", "(", ")", ";">>

\* func f() { return 1; let q = 3; } let r = f();
Src_return_plain ==
    <<"f", "u", "n", "c", " ", "f", "(", ")", " ", "{", " ", "r", "e", "t", "u", "r", "n", " ",
      "1", ";", " ", "l", "e", "t", " ", "q", " ", "=", " ", "3", ";", " ", "}", " ", "l", "e",
      "t", " ", "r", " ", "=", " ", "f", "(", ")", ";">>

\* let r = 1 + 2 == 3;
Src_comp_arith ==
    <<"l", "e", "t", " ", "r", " ", "=", " ", "1", " ", "+", " ", "2", " ", "=", "=", " ", "3",
      ";">>

\* let r = 1 + 2 * 3;
Src_add_mul ==
    <<"l", "e", "t", " ", "r", " ", "=", " ", "1", " ", "+", " ", "2", " ", "*", " ", "3", ";">>

\* let r = 10 - 3 - 2;
Src_sub_sub ==
    <<"l", "e", "t", " ", "r", " ", "=", " ", "1", "0", " ", "-", " ", "3", " ", "-", " ", "2",
      ";">>

\* let r = 2 ^ 3 ^ 2;
Src_pow_pow ==
    <<"l", "e", "t", " ", "r", " ", "=", " ", "2", " ", "^", " ", "3", " ", "^", " ", "2", ";">>

\* let r = (1 + 2) * (3 + 4);
Src_parens ==
    <<"l", "e", "t", " ", "r", " ", "=", " ", "(", "1", " ", "+", " ", "2", ")", " ", "*", " ",
      "(", "3", " ", "+", " ", "4", ")", ";">>

\* let r = false && f();
Src_and ==
    <<"l", "e", "t", " ", "r", " ", "=", " ", "f", "a", "l", "s", "e", " ", "&", "&", " ", "f",
      "(", ")", ";">>

\* let r = true || f();
Src_or ==
    <<"l", "e", "t", " ", "r", " ", "=", " ", "t", "r", "u", "e", " ", "|", "|", " ", "f", "(",
      ")", ";">>

\* let x = 1; if (true) { let x = 2; let y = 3; } let z = x;
Src_block_scope ==
    <<"l", "e", "t", " ", "x", " ", "=", " ", "1", ";", " ", "i", "f", " ", "(", "t", "r", "u",
      "e", ")", " ", "{", " ", "l", "e", "t", " ", "x", " ", "=", " ", "2", ";", " ", "l", "e",
      "t", " ", "y", " ", "=", " ", "3", ";", " ", "}", " ", "l", "e", "t", " ", "z", " ", "=",
      " ", "x", ";">>

\* let x = 1; if (x > 1) { let x = 2; } else { let y = x; } let z = x;
Src_else_scope ==
    <<"l", "e", "t", " ", "x", " ", "=", " ", "1", ";", " ", "i", "f", " ", "(", "x", " ", ">",
      " ", "1", ")", " ", "{", " ", "l", "e", "t", " ", "x", " ", "=", " ", "2", ";", " ", "}",
      " ", "e", "l", "s", "e", " ", "{", " ", "l", "e", "t", " ", "y", " ", "=", " ", "x", ";",
      " ", "}", " ", "l", "e", "t", " ", "z", " ", "=", " ", "x", ";">>

\* let x = 0; if (x) { let y = 1; } let z = x;
Src_if_false ==
    <<"l", "e", "t", " ", "x", " ", "=", " ", "0", ";", " ", "i", "f", " ", "(", "x", ")", " ",
      "{", " ", "l", "e", "t", " ", "y", " ", "=", " ", "1", ";", " ", "}", " ", "l", "e", "t",
      " ", "z", " ", "=", " ", "x", ";">>

\* let x = 1; func g(a) { let x = a; return x; } let r = g(5); let z = x;
Src_function_scope ==
    <<"l", "e", "t", " ", "x", " ", "=", " ", "1", ";", " ", "f", "u", "n", "c", " ", "g", "(",
      "a", ")", " ", "{", " ", "l", "e", "t", " ", "x", " ", "=", " ", "a", ";", " ", "r", "e",
      "t", "u", "r", "n", " ", "x", ";", " ", "}", " ", "l", "e", "t", " ", "r", " ", "=", " ",
      "g", "(", "5", ")", ";", " ", "l", "e", "t", " ", "z", " ", "=", " ", "x", ";">>

\* func h() { let a = 1; } let r = h();
Src_no_return ==
    <<"f", "u", "n", "c", " ", "h", "(", ")", " ", "{", " ", "l", "e", "t", " ", "a", " ", "=",
      " ", "1", ";", " ", "}", " ", "l", "e", "t", " ", "r", " ", "=", " ", "h", "(", ")", ";">>

\* foo();
Src_unknown_method ==
    <<"f", "o", "o", "(", ")", ";">>

\* func f() { foo(1); } f();
Src_unknown_method_nested ==
    <<"f", "u", "n", "c", " ", "f", "(", ")", " ", "{", " ", "f", "o", "o", "(", "1", ")", ";",
      " ", "}", " ", "f", "(", ")", ";">>

\* func f() { assert("m", false); } f();
Src_assert_fails ==
    <<"f", "u", "n", "c", " ", "f", "(", ")", " ", "{", " ", "a", "s", "s", "e", "r", "t", "(",
      DQUOTE, "m", DQUOTE, ",", " ", "f", "a", "l", "s", "e", ")", ";", " ", "}", " ", "f",
      "(", ")", ";">>

\* assert("m", 1 < 2); println("ok");
Src_assert_passes ==
    <<"a", "s", "s", "e", "r", "t", "(", DQUOTE, "m", DQUOTE, ",", " ", "1", " ", "<", " ",
      "2", ")", ";", " ", "p", "r", "i", "n", "t", "l", "n", "(", DQUOTE, "o", "k", DQUOTE,
      ")", ";">>

\* func f(a) { return a; } let r = f();
Src_arity ==
    <<"f", "u", "n", "c", " ", "f", "(", "a", ")", " ", "{", " ", "r", "e", "t", "u", "r", "n",
      " ", "a", ";", " ", "}", " ", "l", "e", "t", " ", "r", " ", "=", " ", "f", "(", ")", ";">>

\* func f() { return y; } let r = f();
Src_undefined_in_function ==
    <<"f", "u", "n", "c", " ", "f", "(", ")", " ", "{", " ", "r", "e", "t", "u", "r", "n", " ",
      "y", ";", " ", "}", " ", "l", "e", "t", " ", "r", " ", "=", " ", "f", "(", ")", ";">>

\* let x = 1 / 0;
Src_div_zero ==
    <<"l", "e", "t", " ", "x", " ", "=", " ", "1", " ", "/", " ", "0", ";">>

\* let y = "abc" - 1;
Src_bad_coercion ==
    <<"l", "e", "t", " ", "y", " ", "=", " ", DQUOTE, "a", "b", "c", DQUOTE, " ", "-", " ",
      "1", ";">>

\* 1;
Src_literal_statement ==
    <<"1", ";">>

\* x;
Src_identifier_statement ==
    <<"x", ";">>

\* -x;
Src_minus_statement ==
    <<"-", "x", ";">>

\* !x;
Src_not_statement ==
    <<"!", "x", ";">>

\* 1 + 2;
Src_binary_statement ==
    <<"1", " ", "+", " ", "2", ";">>

\* let a = -1; let b = !true;
Src_unary ==
    <<"l", "e", "t", " ", "a", " ", "=", " ", "-", "1", ";", " ", "l", "e", "t", " ", "b", " ",
      "=", " ", "!", "t", "r", "u", "e", ";">>

\* return 1;
Src_return_outside ==
    <<"r", "e", "t", "u", "r", "n", " ", "1", ";">>

\* let s = "ab
Src_unterminated_string ==
    <<"l", "e", "t", " ", "s", " ", "=", " ", DQUOTE, "a", "b">>

\* let = 1;
Src_parse_error ==
    <<"l", "e", "t", " ", "=", " ", "1", ";">>

\* let n = to_number("12"); print(n + 1);
Src_to_number ==
    <<"l", "e", "t", " ", "n", " ", "=", " ", "t", "o", "_", "n", "u", "m", "b", "e", "r", "(",
      DQUOTE, "1", "2", DQUOTE, ")", ";", " ", "p", "r", "i", "n", "t", "(", "n", " ", "+",
      " ", "1", ")", ";">>

\* let n = to_number("x");
Src_to_number_fails ==
    <<"l", "e", "t", " ", "n", " ", "=", " ", "t", "o", "_", "n", "u", "m", "b", "e", "r", "(",
      DQUOTE, "x", DQUOTE, ")", ";">>

\* println(1); } println(2);
Src_stray_brace ==
    <<"p", "r", "i", "n", "t", "l", "n", "(", "1", ")", ";", " ", "}", " ", "p", "r", "i", "n",
      "t", "l", "n", "(", "2", ")", ";">>

\* let x = 1;
Src_whole_let ==
    <<"l", "e", "t", " ", "x", " ", "=", " ", "1", ";">>

\* f(1, 2);
Src_whole_call ==
    <<"f", "(", "1", ",", " ", "2", ")", ";">>

\* if (a) { b(); }
Src_whole_if ==
    <<"i", "f", " ", "(", "a", ")", " ", "{", " ", "b", "(", ")", ";", " ", "}">>

\* func f() { }
Src_whole_func ==
    <<"f", "u", "n", "c", " ", "f", "(", ")", " ", "{", " ", "}">>

\* func p(x) { print(x); return x; } func f(a) { print("body"); } f(p(1), p(2));
Src_arity_effects ==
    <<"f", "u", "n", "c", " ", "p", "(", "x", ")", " ", "{", " ", "p", "r", "i", "n", "t", "(",
      "x", ")", ";", " ", "r", "e", "t", "u", "r", "n", " ", "x", ";", " ", "}", " ", "f", "u",
      "n", "c", " ", "f", "(", "a", ")", " ", "{", " ", "p", "r", "i", "n", "t", "(", DQUOTE,
      "b", "o", "d", "y", DQUOTE, ")", ";", " ", "}", " ", "f", "(", "p", "(", "1", ")", ",",
      " ", "p", "(", "2", ")", ")", ";">>

\* func print(x) { return 7; } let r = print(1);
Src_shadow_native ==
    <<"f", "u", "n", "c", " ", "p", "r", "i", "n", "t", "(", "x", ")", " ", "{", " ", "r", "e",
      "t", "u", "r", "n", " ", "7", ";", " ", "}", " ", "l", "e", "t", " ", "r", " ", "=", " ",
      "p", "r", "i", "n", "t", "(", "1", ")", ";">>

\* func g() { return 1; } func h() { func g() { return 2; } return g(); } let r = h(); let z = g();
Src_inner_function ==
    <<"f", "u", "n", "c", " ", "g", "(", ")", " ", "{", " ", "r", "e", "t", "u", "r", "n", " ",
      "1", ";", " ", "}", " ", "f", "u", "n", "c", " ", "h", "(", ")", " ", "{", " ", "f", "u",
      "n", "c", " ", "g", "(", ")", " ", "{", " ", "r", "e", "t", "u", "r", "n", " ", "2", ";",
      " ", "}", " ", "r", "e", "t", "u", "r", "n", " ", "g", "(", ")", ";", " ", "}", " ", "l",
      "e", "t", " ", "r", " ", "=", " ", "h", "(", ")", ";", " ", "l", "e", "t", " ", "z", " ",
      "=", " ", "g", "(", ")", ";">>

\* if (true) { return print(1); }
Src_return_in_top_if ==
    <<"i", "f", " ", "(", "t", "r", "u", "e", ")", " ", "{", " ", "r", "e", "t", "u", "r", "n",
      " ", "p", "r", "i", "n", "t", "(", "1", ")", ";", " ", "}">>

\* func f() { return 1; } let a = f(); return print(2);
Src_return_after_calls ==
    <<"f", "u", "n", "c", " ", "f", "(", ")", " ", "{", " ", "r", "e", "t", "u", "r", "n", " ",
      "1", ";", " ", "}", " ", "l", "e", "t", " ", "a", " ", "=", " ", "f", "(", ")", ";", " ",
      "r", "e", "t", "u", "r", "n", " ", "p", "r", "i", "n", "t", "(", "2", ")", ";">>

\* let e = print(); let r = !e;
Src_not_empty ==
    <<"l", "e", "t", " ", "e", " ", "=", " ", "p", "r", "i", "n", "t", "(", ")", ";", " ", "l",
      "e", "t", " ", "r", " ", "=", " ", "!", "e", ";">>

\* func g() { return 5; } func f() { let y = g(); } func k() { g(); return 6; } let r = f(); let z = k();
Src_caller_no_return ==
    <<"f", "u", "n", "c", " ", "g", "(", ")", " ", "{", " ", "r", "e", "t", "u", "r", "n", " ",
      "5", ";", " ", "}", " ", "f", "u", "n", "c", " ", "f", "(", ")", " ", "{", " ", "l", "e",
      "t", " ", "y", " ", "=", " ", "g", "(", ")", ";", " ", "}", " ", "f", "u", "n", "c", " ",
      "k", "(", ")", " ", "{", " ", "g", "(", ")", ";", " ", "r", "e", "t", "u", "r", "n", " ",
      "6", ";", " ", "}", " ", "l", "e", "t", " ", "r", " ", "=", " ", "f", "(", ")", ";", " ",
      "l", "e", "t", " ", "z", " ", "=", " ", "k", "(", ")", ";">>

\* func f(n) { if (n > 0) { let x = f(n - 1); } else { return 7; } } let r = f(1); let z = f(0);
Src_recursive_slots ==
    <<"f", "u", "n", "c", " ", "f", "(", "n", ")", " ", "{", " ", "i", "f", " ", "(", "n", " ",
      ">", " ", "0", ")", " ", "{", " ", "l", "e", "t", " ", "x", " ", "=", " ", "f", "(", "n",
      " ", "-", " ", "1", ")", ";", " ", "}", " ", "e", "l", "s", "e", " ", "{", " ", "r", "e",
      "t", "u", "r", "n", " ", "7", ";", " ", "}", " ", "}", " ", "l", "e", "t", " ", "r", " ",
      "=", " ", "f", "(", "1", ")", ";", " ", "l", "e", "t", " ", "z", " ", "=", " ", "f", "(",
      "0", ")", ";">>

\* let n = 5; func f(n) { if (n > 0) { let q = f(n - 1); } let m = n; let n = 9; return m; } let r = f(1); let z = n;
Src_param_shadow ==
    <<"l", "e", "t", " ", "n", " ", "=", " ", "5", ";", " ", "f", "u", "n", "c", " ", "f", "(",
      "n", ")", " ", "{", " ", "i", "f", " ", "(", "n", " ", ">", " ", "0", ")", " ", "{", " ",
      "l", "e", "t", " ", "q", " ", "=", " ", "f", "(", "n", " ", "-", " ", "1", ")", ";", " ",
      "}", " ", "l", "e", "t", " ", "m", " ", "=", " ", "n", ";", " ", "l", "e", "t", " ", "n",
      " ", "=", " ", "9", ";", " ", "r", "e", "t", "u", "r", "n", " ", "m", ";", " ", "}", " ",
      "l", "e", "t", " ", "r", " ", "=", " ", "f", "(", "1", ")", ";", " ", "l", "e", "t", " ",
      "z", " ", "=", " ", "n", ";">>

\* func g() { return v + h(); } func f() { let v = 3; func h() { return 4; } return g(); } let r = f();
Src_dynamic_scope ==
    <<"f", "u", "n", "c", " ", "g", "(", ")", " ", "{", " ", "r", "e", "t", "u", "r", "n", " ",
      "v", " ", "+", " ", "h", "(", ")", ";", " ", "}", " ", "f", "u", "n", "c", " ", "f", "(",
      ")", " ", "{", " ", "l", "e", "t", " ", "v", " ", "=", " ", "3", ";", " ", "f", "u", "n",
      "c", " ", "h", "(", ")", " ", "{", " ", "r", "e", "t", "u", "r", "n", " ", "4", ";", " ",
      "}", " ", "r", "e", "t", "u", "r", "n", " ", "g", "(", ")", ";", " ", "}", " ", "l", "e",
      "t", " ", "r", " ", "=", " ", "f", "(", ")", ";">>

Sources ==
    {Src_return_in_if,
     Src_return_plain,
     Src_comp_arith,
     Src_add_mul,
     Src_sub_sub,
     Src_pow_pow,
     Src_parens,
     Src_and,
     Src_or,
     Src_block_scope,
     Src_else_scope,
     Src_if_false,
     Src_function_scope,
     Src_no_return,
     Src_unknown_method,
     Src_unknown_method_nested,
     Src_assert_fails,
     Src_assert_passes,
     Src_arity,
     Src_undefined_in_function,
     Src_div_zero,
     Src_bad_coercion,
     Src_literal_statement,
     Src_identifier_statement,
     Src_minus_statement,
     Src_not_statement,
     Src_binary_statement,
     Src_unary,
     Src_return_outside,
     Src_unterminated_string,
     Src_parse_error,
     Src_to_number,
     Src_to_number_fails,
     Src_stray_brace,
     Src_whole_let,
     Src_whole_call,
     Src_whole_if,
     Src_whole_func,
     Src_arity_effects,
     Src_shadow_native,
     Src_inner_function,
     Src_return_in_top_if,
     Src_return_after_calls,
     Src_not_empty,
     Src_caller_no_return,
     Src_recursive_slots,
     Src_param_shadow,
     Src_dynamic_scope}

\* programs of at most MaxStatements statements, each statement that needs a `;`
\* written with or without it
MaxStatements == 2
SimpleKinds == {"let", "return", "call", "expression"}
BlockKinds == {"if", "func", "if_else"}
StatementText(kind) ==
    CASE kind = "let" -> <<"l", "e", "t", " ", "a", " ", "=", " ", "1">>
      [] kind = "return" -> <<"r", "e", "t", "u", "r", "n", " ", "2">>
      [] kind = "call" -> <<"f", "(", "1", ")">>
      [] kind = "expression" -> <<"a", " ", "+", " ", "1">>
      [] kind = "if" -> <<"i", "f", " ", "(", "a", ")", " ", "{", " ", "}">>
      [] kind = "func" -> <<"f", "u", "n", "c", " ", "g", "(", ")", " ", "{", " ", "}">>
      [] kind = "if_else" -> <<"i", "f", " ", "(", "c", ")", " ", "f", "(", ")", ";", " ",
                               "e", "l", "s", "e", " ", "g", "(", ")", ";">>
Items == [kind : SimpleKinds, term : BOOLEAN] \cup [kind : BlockKinds, term : {FALSE}]
ItemSeqs == UNION {[1..n -> Items] : n \in 1..MaxStatements}
ItemText(item) == StatementText(item.kind) \o (IF item.term THEN <<";">> ELSE <<>>)
RECURSIVE SeqText(_)
SeqText(q) ==
    IF Len(q) = 1 THEN ItemText(q[1])
    ELSE SeqText(SubSeq(q, 1, Len(q) - 1)) \o <<" ">> \o ItemText(q[Len(q)])
TerminatorSources == {SeqText(q) : q \in ItemSeqs}

\* `let r = !<literal>;` for literals of every variant; the String literals are a
\* text with at most MaxPad whitespace characters before and after it
MaxPad == 1
PadTexts == TextsUpTo({" ", NL, TAB}, MaxPad)
CoreTexts ==
    {<<>>, <<"0">>, <<"f", "a", "l", "s", "e">>, <<"F", "A", "L", "S", "E">>,
     <<"F", "a", "l", "s", "e">>, <<"f", "A", "l", "S", "e">>, <<"x">>, <<"0", "0">>,
     <<"0", ".", "0">>, <<"f", "a", "l", "s", "e", "y">>, <<"f">>, <<"t", "r", "u", "e">>,
     <<"n", "o">>, <<"1">>, <<"0", " ", "0">>}
StringLiteralTexts ==
    {<<DQUOTE>> \o before \o core \o after \o <<DQUOTE>> :
        before \in PadTexts, core \in CoreTexts, after \in PadTexts}
PlainLiteralTexts ==
    {<<"0">>, <<"1">>, <<"0", ".", "0">>, <<"0", ".", "5">>, <<"t", "r", "u", "e">>,
     <<"f", "a", "l", "s", "e">>}
LetNotText(literal) == <<"l", "e", "t", " ", "r", " ", "=", " ", "!">> \o literal \o <<";">>
TruthSources == {LetNotText(literal) : literal \in StringLiteralTexts \cup PlainLiteralTexts}

\* `let r = a op b;` for operands of every variant, after `let e = print();` where
\* an operand is the Empty variable e
EmptyPrefix == <<"l", "e", "t", " ", "e", " ", "=", " ", "p", "r", "i", "n", "t", "(", ")", ";", " ">>
MaxInt == IntToText(I64Max)
MinInt == <<"(", "0", " ", "-", " ">> \o MaxInt \o <<" ", "-", " ", "1", ")">>
OperandTexts ==
    {<<"0">>, <<"2">>, MaxInt, MinInt, <<"3", ".", "0">>, <<"2", ".", "5">>, <<"t", "r", "u", "e">>,
     <<DQUOTE, "1", DQUOTE>>, <<DQUOTE, "-", "2", DQUOTE>>, <<DQUOTE, "1", ".", "5", DQUOTE>>, <<"e">>}
PowOperandTexts ==
    {<<"0">>, <<"2">>, <<"3", ".", "0">>, <<"2", ".", "5">>, <<"t", "r", "u", "e">>,
     <<DQUOTE, "-", "2", DQUOTE>>, <<"e">>}
OperationText(a, op, b) ==
    (IF a = <<"e">> \/ b = <<"e">> THEN EmptyPrefix ELSE <<>>)
        \o LetText(a \o <<" ">> \o op \o <<" ">> \o b)
Ex_5_div_2 == <<"5", " ", "/", " ", "2">>
Ex_2_plus_3 == <<"2", " ", "+", " ", "3">>
Ex_2_plus_3_0 == <<"2", " ", "+", " ", "3", ".", "0">>
OperationSources ==
    {OperationText(a, op, b) :
        a \in OperandTexts, op \in {<<"+">>, <<"-">>, <<"*">>, <<"/">>}, b \in OperandTexts}
    \cup {OperationText(a, <<"^">>, b) : a \in PowOperandTexts, b \in PowOperandTexts}
    \cup {LetText(Ex_5_div_2), LetText(Ex_2_plus_3), LetText(Ex_2_plus_3_0)}

\* `let r = a cmp b;` for operands of every variant
ComparedTexts ==
    {<<"1">>, <<"2">>, <<"1", ".", "0">>, <<"2", ".", "5">>, <<DQUOTE, "1", DQUOTE>>,
     <<DQUOTE, "a", DQUOTE>>, <<DQUOTE, "a", "b", DQUOTE>>, <<"t", "r", "u", "e">>,
     <<"f", "a", "l", "s", "e">>, <<"e">>}
ComparisonSources ==
    {OperationText(a, cmp, b) : a \in ComparedTexts, cmp \in CompOpTexts, b \in ComparedTexts}

\* `let r = e;` for expressions whose operands are the identifier a and the call f(2)
CallTermTexts == {<<"a">>, <<"f", "(", "2", ")">>}
CallOpTexts == {<<"+">>, <<"*">>, <<"^">>}
Ex_1_plus_call_times_3 == <<"1", " ", "+", " ", "f", "(", "2", ")", " ", "*", " ", "3">>
CallSources ==
    {LetText(e) : e \in UNION {ExprTexts(CallTermTexts, CallOpTexts, n) : n \in 1..MaxTerms}
                         \cup {Ex_1_plus_call_times_3}}

\* every text that ends before the end of a statement: the proper prefixes of the
\* one-statement programs
WholeStatements == {Src_whole_let, Src_whole_call, Src_whole_if, Src_whole_func}
TruncatedSources ==
    UNION {{SubSeq(src, 1, k) : k \in 1..(Len(src) - 1)} : src \in WholeStatements}

Init ==
    \E src \in Sources \cup ExpressionSources \cup TruncatedSources \cup TerminatorSources
                \cup TruthSources \cup OperationSources \cup ComparisonSources \cup CallSources :
        StartState(src, <<>>, "lex")

Next ==
    \/ LexStep
    \/ LexFinish
    \/ ParseStep
    \/ Evaluate
    \/ EvaluateBlock
    \/ EvaluateExpression
    \/ EvaluateFunctionCall
    \/ ResumeBlock
    \/ ResumeUnary
    \/ ResumeBinaryLeft
    \/ ResumeBinaryRight
    \/ ResumeArguments
    \/ ResumeFunctionBlock
    \/ ResumeAssignment
    \/ ResumeCondition
    \/ ResumeConditionalBlock
    \/ ResumeReturn
    \/ ResumeDiscard
    \/ ResumeRun

Spec == Init /\ [][Next]_vars

(***************************************************************************)
(* ExecutionContext on its own: enter_function, exit_function_with_return   *)
(* and set_return_value called in any order on a new context.               *)
(***************************************************************************)
MaxDepth == 4
SlotValues == {Integer(0), Integer(1)}

ContextInit == StartState(<<>>, <<>>, "context")

\* the context after a call that left it as m; a panic ends the use of the context
InstallContext(m) ==
    /\ function_depth' = m.function_depth
    /\ return_values' = m.return_values
    /\ outcome' = m.outcome
    /\ phase' = IF m.outcome = "pending" THEN "context" ELSE "done"
    /\ UNCHANGED <<program, lx, tokens, ast, error, ctl, kont, scopes, current_scope,
                   call_stack, output>>

EnterFunction ==
    /\ phase = "context"
    /\ function_depth < MaxDepth
    /\ InstallContext(enter_function(Machine))

ExitFunctionWithReturn ==
    /\ phase = "context"
    /\ InstallContext(exit_function_with_return(Machine).m)

SetReturnValue ==
    /\ phase = "context"
    /\ \E value \in SlotValues : InstallContext(set_return_value(Machine, value))

ContextNext == EnterFunction \/ ExitFunctionWithReturn \/ SetReturnValue
ContextSpec == ContextInit /\ [][ContextNext]_vars

(***************************************************************************)
(* Properties                                                               *)
(***************************************************************************)
Name_r == <<"r">>
Name_x == <<"x">>
Name_z == <<"z">>

\* the binding of a variable of the program, if it has one; the statements of the
\* program run in the first child of the root scope
Bound(name) == Len(scopes) >= 2 /\ name \in DOMAIN scopes[2].variables
Global(name) == scopes[2].variables[name]
\* v is the number k
IsNumber(v, k) == v.t \in {"Integer", "Float"} /\ v.d # 0 /\ v.n = k * v.d

\* the tokens of e in `let r = e;`
ExprTokens(toks) == SubSeq(toks, 4, Len(toks) - 2)

\* the operators of a token sequence that lie outside every parenthesis
Depth(toks, k) ==
    Cardinality({i \in 1..(k - 1) : toks[i].token_type = "ParenthesisL"})
    - Cardinality({i \in 1..(k - 1) : toks[i].token_type = "ParenthesisR"})
TopOps(toks) == {k \in 1..Len(toks) : toks[k].token_type = "Operator" /\ Depth(toks, k) = 0}

\* how tightly the specification lets an operator bind: comparison loosest, then
\* additive, multiplicative, exponential
Level(op) ==
    CASE op \in CompOps -> 0
      [] op \in AdditiveOps -> 1
      [] op \in MultiplicativeOps -> 2
      [] op = "Exponential" -> 3

SetMin(S) == CHOOSE k \in S : \A j \in S : k <= j
SetMax(S) == CHOOSE k \in S : \A j \in S : k >= j

\* the operator at the root: among the loosest operators outside parentheses, the
\* last one when they associate to the left, the first one for the exponential
RootOp(toks) ==
    LET ops == TopOps(toks)
        low == SetMin({Level(toks[k].operator_type) : k \in ops})
        lows == {k \in ops : Level(toks[k].operator_type) = low}
    IN IF low = 3 THEN SetMin(lows) ELSE SetMax(lows)

\* the tree the specification's grouping gives an expression of terms and operators
RECURSIVE Grouped(_)
Grouped(toks) ==
    IF Len(toks) = 1 THEN build_node(toks[1], NoNode, NoNode)
    ELSE IF TopOps(toks) = {} THEN Grouped(SubSeq(toks, 2, Len(toks) - 1))
    ELSE LET k == RootOp(toks) IN
         build_binary_op_node(toks[k].operator_type,
                              Grouped(SubSeq(toks, 1, k - 1)),
                              Grouped(SubSeq(toks, k + 1, Len(toks))))

\* the tree of `let r = e;` with e grouped as the specification says
GroupedProgram ==
    build_program_node(<<build_statement_node(
        build_assignment_node(Name_r, Grouped(ExprTokens(tokens))))>>)

ArithSources ==
    {LetText(e) : e \in ArithTexts \cup {Ex_1_plus_2_times_3, Ex_10_minus_3_minus_2,
                                         Ex_2_pow_3_pow_2, Ex_parens}}
CompSources == {LetText(e) : e \in CompTexts \cup {Ex_1_plus_2_eq_3}}

Finished(src) == program = src /\ phase = "done"
Yields(src, k) == Finished(src) => outcome = "ok" /\ Bound(Name_r) /\ IsNumber(Global(Name_r), k)

\* C1: once a return has executed in a function activation (its return slot is
\* filled), no further statement of that activation is evaluated, also when the
\* return sits in a branch of an if; f() of Src_return_in_if yields 1.
C1_ReturnExitsEagerly ==
    /\ ~(phase = "run" /\ ctl.mode = "call" /\ ctl.fn = "evaluate"
         /\ return_values # <<>> /\ Last(return_values) # NoValue)
    /\ Yields(Src_return_in_if, 1)

\* C2: a comparison binds looser than every arithmetic operator: `a + b == c + d`
\* parses to ((a + b) == (c + d)), and `1 + 2 == 3` evaluates to Boolean true.
C2_ComparisonBindsLoosest ==
    /\ (program \in CompSources /\ ast # NoNode) => ast = GroupedProgram
    /\ Finished(LetText(Ex_1_plus_2_eq_3)) =>
           outcome = "ok" /\ Bound(Name_r) /\ Global(Name_r) = Boolean(TRUE)

\* C3: for expressions of terms and arithmetic operators the parser groups
\* multiplicative tighter than additive and exponential tighter than multiplicative,
\* additive and multiplicative to the left and exponential to the right; the four
\* examples evaluate to 7, 5, 512 and 21.
C3_ArithmeticGrouping ==
    /\ (program \in ArithSources /\ ast # NoNode) => ast = GroupedProgram
    /\ Yields(LetText(Ex_1_plus_2_times_3), 7)
    /\ Yields(LetText(Ex_10_minus_3_minus_2), 5)
    /\ Yields(LetText(Ex_2_pow_3_pow_2), 512)
    /\ Yields(LetText(Ex_parens), 21)

\* `2 ^ 3 ^ 2` has been parsed as 2 ^ (3 ^ 2) and has run to 512
C3_Witness ==
    /\ Finished(LetText(Ex_2_pow_3_pow_2))
    /\ ast = GroupedProgram
    /\ Bound(Name_r)
    /\ Global(Name_r) = Float(512, 1)

\* C4: a program using `&&` or `||` lexes, parses and runs, the right operand
\* unevaluated when the left one decides: `false && f()` is Boolean false and
\* `true || f()` is Boolean true although f is not defined.
C4_LogicalOperatorsShortCircuit ==
    /\ Finished(Src_and) => outcome = "ok" /\ Bound(Name_r) /\ Global(Name_r) = Boolean(FALSE)
    /\ Finished(Src_or) => outcome = "ok" /\ Bound(Name_r) /\ Global(Name_r) = Boolean(TRUE)

\* the step in which evaluate_block leaves its block
BlockExit ==
    /\ phase = "run" /\ ctl.mode = "ret" /\ kont # <<>>
    /\ Last(kont).pc = "evaluate_block"
    /\ Len(kont') < Len(kont)

\* C5: when a block exits, every scope that existed when the block was entered has
\* the bindings it had then, the enclosing scope is current again, and a lookup
\* from it finds what it found on entry, whatever the block declared.
C5_ScopeIsolation ==
    [][BlockExit =>
         LET f == Last(kont) IN
         /\ Len(scopes') >= Len(f.entry)
         /\ SubSeq(scopes', 1, Len(f.entry)) = f.entry
         /\ current_scope' = f.saved
         /\ \A i \in (Len(f.entry) + 1)..Len(scopes') :
              \A name \in DOMAIN scopes'[i].variables :
                lookup_variable(scopes', current_scope', name)
                  = lookup_variable(f.entry, f.saved, name)]_vars

\* the if block of Src_block_scope has declared its own x and y and has exited;
\* x of the program is still 1 and has been read into z
C5_Witness ==
    /\ Finished(Src_block_scope)
    /\ outcome = "ok"
    /\ Len(scopes) = 3
    /\ scopes[3].variables = (Name_x :> Integer(2)) @@ (<<"y">> :> Integer(3))
    /\ scopes[2].variables = (Name_x :> Integer(1)) @@ (Name_z :> Integer(1))

\* the step in which a call of a name that is no function and no native fails
MethodNotFound ==
    /\ outcome = "pending"
    /\ outcome' = "runtime_error"
    /\ error'.msg = "Method not found: {}"

\* the name and the line of the call being made or having its arguments evaluated
CallInFlight == IF ctl.mode = "call" THEN ctl.node ELSE Last(kont).node

\* C6: a call of an unknown name fails with "Method not found: {name}" and the
\* stack of the error has the frame of that call: its name and its line.
C6_MethodNotFoundFrame ==
    [][MethodNotFound =>
         /\ error'.arg = <<CallInFlight[2]>>
         /\ \E i \in DOMAIN error'.stack :
              error'.stack[i] = StackFrame(CallInFlight[2], CallInFlight[4])]_vars

\* the frames on the call stack when the operation that fails in this step is
\* dispatched: a call of a native pushes its frame before anything else
StackAtDispatch ==
    IF ctl.mode = "call" /\ ctl.fn = "evaluate_function_call"
       /\ ~lookup_function(scopes, current_scope, ctl.node[2]).found
    THEN Append(call_stack, StackFrame(ctl.node[2], ctl.node[4]))
    ELSE call_stack

\* C7: the stack of a RuntimeError returned by run is the call stack at the moment
\* the failing operation was dispatched, outermost frame first, each frame once.
C7_ErrorCarriesCallStack ==
    [][(outcome = "pending" /\ outcome' = "runtime_error") =>
         error'.stack = StackAtDispatch]_vars

\* the step that applies a unary or binary operator to its evaluated operands
OperatorApplied ==
    /\ phase = "run" /\ ctl.mode = "ret" /\ kont # <<>>
    /\ Last(kont).pc \in {"evaluate_expression.UnaryOperation",
                          "evaluate_expression.BinaryOperation.right"}

\* C8: a division by zero and a failed coercion of a string to a number make run
\* return a RuntimeError with the current call frames; the Value operation neither
\* ends the process nor panics.
C8_ArithmeticFailureIsRuntimeError ==
    [][OperatorApplied =>
         /\ outcome' \in {"pending", "runtime_error"}
         /\ outcome' = "runtime_error" => error'.stack = call_stack]_vars

\* C9: run ends in Ok or in a RuntimeError and never panics on a tree the parser
\* returned: a statement that is a literal, an identifier or a unary operation is
\* evaluated or reported.
C9_RunNeverPanics == ast # NoNode => outcome # "panic"

\* every `"` of a text over LexAlphabet opens or closes a literal in turn, so the
\* last literal is unterminated when their number is odd
UnterminatedString(prog) ==
    Cardinality({i \in 1..Len(prog) : prog[i] = DQUOTE}) % 2 = 1

\* C10: lexing a text with an unterminated string literal ends in a lexer error:
\* no token vector is returned, no StringLiteral token is emitted for the text.
C10_UnterminatedStringIsLexerError ==
    (phase # "lex" /\ UnterminatedString(program)) =>
        outcome = "lex_error" /\ tokens = <<>>

\* Parser::parse has just returned Ok and run is about to start
Parsed == phase = "run" /\ ctl = Call("evaluate", ast) /\ Len(kont) = 1

\* C11: parse returns Ok only when every token up to and including Eof has been
\* consumed into the Program body; a `}` at top level that closes nothing is a
\* ParserError, the tokens after it are not dropped.
C11_ProgramConsumesAllTokens ==
    /\ Parsed => Parse(tokens).pos = Len(tokens)
    /\ Finished(Src_stray_brace) => outcome = "parse_error"

\* C12: when the input ends inside a statement the parser returns UnexpectedEOF,
\* wherever the text is cut.
C12_TruncatedInputIsUnexpectedEOF ==
    (program \in TruncatedSources /\ phase \in {"run", "done"} /\ outcome # "lex_error") =>
        outcome = "parse_error" /\ error.kind = "UnexpectedEOF"

\* text is one or more digits
DigitRun(text) == Len(text) >= 1 /\ \A i \in 1..Len(text) : text[i] \in Digits

\* text is digits+ (an Integer) or digits+ '.' digits+ (a Float)
IntegerLexeme(text) == DigitRun(text)
FloatLexeme(text) ==
    \E k \in 1..Len(text) :
        /\ text[k] = "."
        /\ DigitRun(SubSeq(text, 1, k - 1))
        /\ DigitRun(SubSeq(text, k + 1, Len(text)))

\* C13: a numeric token has a lexeme digits+ and the tag Integer, or a lexeme
\* digits+ '.' digits+ and the tag Float; a '.' with no digit after it is never
\* part of a Float token.
C13_NumericTokenWellFormed ==
    \A i \in DOMAIN tokens :
        tokens[i].token_type = "NumeralLiteral" =>
            \/ tokens[i].numeral = "Integer" /\ IntegerLexeme(tokens[i].value)
            \/ tokens[i].numeral = "Float" /\ FloatLexeme(tokens[i].value)

\* the number of digits of prog from offset pos on
RECURSIVE DigitCount(_, _)
DigitCount(prog, pos) ==
    IF pos < Len(prog) /\ prog[pos + 1] \in Digits THEN 1 + DigitCount(prog, pos + 1) ELSE 0

\* the offset of the second '.' of the numeric literal that starts at offset pos,
\* or -1 when the literal has none: digits+ '.' digits* '.'
SecondDot(prog, pos) ==
    LET first == pos + DigitCount(prog, pos)
        second == first + 1 + DigitCount(prog, first + 1)
    IN IF /\ first > pos
          /\ first < Len(prog) /\ prog[first + 1] = "."
          /\ second < Len(prog) /\ prog[second + 1] = "."
       THEN second ELSE -1

\* the lexer is about to lex a numeric literal that has a second '.'
AtMalformedNumber == phase = "lex" /\ SecondDot(program, lx.pos) >= 0

\* C14: a second '.' in a numeric literal makes parse return Err with kind
\* MalformedNumberLiteral and the text consumed so far (`10.` for `10..1`); no
\* tokens are returned and lexing stops there.
C14_SecondDotIsMalformedNumber ==
    [][AtMalformedNumber =>
         /\ outcome' = "lex_error"
         /\ error'.kind = "MalformedNumberLiteral"
         /\ error'.arg = <<SubSeq(program, lx.pos + 1, SecondDot(program, lx.pos))>>
         /\ tokens' = <<>>
         /\ phase' = "done"
         /\ ~(ENABLED LexNext)']_vars

\* `10..1` has been rejected with the text `10.`
C14_Witness ==
    /\ program = Ex_10_dot_dot_1
    /\ outcome = "lex_error"
    /\ error.kind = "MalformedNumberLiteral"
    /\ error.arg = <<(<<"1", "0", ".">>)>>
    /\ tokens = <<>>

\* the tree of each statement of StatementText
StatementNode(kind) ==
    CASE kind = "let" -> build_assignment_node(<<"a">>, <<"Literal", Integer(1)>>)
      [] kind = "return" -> build_return_node(<<"Literal", Integer(2)>>)
      [] kind = "call" -> build_method_call_node(<<"f">>, <<(<<"Literal", Integer(1)>>)>>, 1)
      [] kind = "expression" ->
           build_binary_op_node("Additive.Add", <<"Identifier", <<"a">>>>,
                                <<"Literal", Integer(1)>>)
      [] kind = "if" -> build_conditional_node(<<"Identifier", <<"a">>>>, <<>>, None)
      [] kind = "func" -> build_function_declaration_node(<<"g">>, <<>>, <<>>)
      [] kind = "if_else" ->
           build_conditional_node(<<"Identifier", <<"c">>>>,
                                  <<build_method_call_node(<<"f">>, <<>>, 1)>>,
                                  Some(<<build_method_call_node(<<"g">>, <<>>, 1)>>))

\* the statements of q that need a `;` and have none
Unterminated(q) == {i \in 1..Len(q) : q[i].kind \in SimpleKinds /\ ~q[i].term}

\* the offset in SeqText(q) of the first character after statement i
EndOffset(q, i) == Len(SeqText(SubSeq(q, 1, i)))

\* C15: a declaration, a return and an expression statement must be followed by
\* `;`, else the parser fails with UnexpectedToken expecting EndOfStatement at the
\* token that follows; an if and a function declaration need none; and the
\* statement that is the body of an if or an else takes its own `;`, so that
\* `if (c) f(); else g();` is one IfConditional with both branches.
C15_StatementTerminator ==
    (phase \in {"run", "done"} /\ program \in TerminatorSources
       /\ (Parsed \/ outcome = "parse_error")) =>
        \A q \in ItemSeqs :
            program = SeqText(q) =>
                IF Unterminated(q) = {}
                THEN /\ outcome = "pending"
                     /\ ast = build_program_node(
                            [i \in 1..Len(q) |-> build_statement_node(StatementNode(q[i].kind))])
                ELSE LET i == SetMin(Unterminated(q)) IN
                     /\ outcome = "parse_error"
                     /\ ast = NoNode
                     /\ error.kind = "UnexpectedToken"
                     /\ error.msg = "EndOfStatement"
                     /\ error.token.start >= EndOffset(q, i)
                     /\ error.token.start <= EndOffset(q, i) + 1
                     /\ error.token.token_type # "EndOfstatement"

\* `if (c) f(); else g();` followed by a declaration has been parsed into an
\* IfConditional with both branches and a Declaration
C15_Witness ==
    /\ Parsed
    /\ program = SeqText(<<[kind |-> "if_else", term |-> FALSE], [kind |-> "let", term |-> TRUE]>>)
    /\ ast = build_program_node(<<build_statement_node(StatementNode("if_else")),
                                  build_statement_node(StatementNode("let"))>>)

\* the step in which a call fails on the number of its arguments
ArityMismatch ==
    /\ outcome = "pending"
    /\ outcome' = "runtime_error"
    /\ error'.msg = "Function '{}' expected {} arguments, got {}"

\* C16: a call of a declared function evaluates its arguments left to right, once
\* each, and then, when their number is not the number of parameters, fails with
\* "Function '{name}' expected {n} arguments, got {m}"; no scope is entered, no
\* frame pushed, the function is not entered and no statement of its body runs.
C16_ArityMismatch ==
    /\ [][ArityMismatch =>
            LET name == CallInFlight[2]
                declared == lookup_function(scopes, current_scope, name)
            IN /\ declared.found
               /\ Len(declared.function[3]) # Len(CallInFlight[3])
               /\ error'.arg = <<name, IntToText(Len(declared.function[3])),
                                 IntToText(Len(CallInFlight[3]))>>
               /\ error'.stack = call_stack
               /\ scopes' = scopes
               /\ current_scope' = current_scope
               /\ call_stack' = call_stack
               /\ function_depth' = function_depth
               /\ return_values' = return_values
               /\ output' = output]_vars
    /\ [](Finished(Src_arity_effects) =>
            /\ outcome = "runtime_error"
            /\ error.msg = "Function '{}' expected {} arguments, got {}"
            /\ output = <<Effect("print", <<"1">>, TRUE), Effect("print", <<"2">>, TRUE)>>)

\* f(p(1), p(2)) has printed 1 and 2 and has failed: f has one parameter
C16_Witness ==
    /\ Finished(Src_arity_effects)
    /\ outcome = "runtime_error"
    /\ error.arg = <<(<<"f">>), <<"1">>, <<"2">>>>
    /\ output = <<Effect("print", <<"1">>, TRUE), Effect("print", <<"2">>, TRUE)>>
    /\ function_depth = 0
    /\ call_stack = <<>>

\* the run of src ends well with the variable name of the program bound to v
Gives(src, name, v) == Finished(src) => (outcome = "ok" /\ Bound(name) /\ Global(name) = v)

\* the scopes from scope id up to the root, innermost first
RECURSIVE ScopeChain(_, _)
ScopeChain(arena, id) ==
    IF id < 0 THEN <<>> ELSE <<id>> \o ScopeChain(arena, arena[id + 1].parent)

\* the places in the chain of the current scope whose scope declares function name
Declaring(name) ==
    LET chain == ScopeChain(scopes, current_scope)
    IN {k \in 1..Len(chain) : name \in DOMAIN scopes[chain[k] + 1].functions}

\* the declaration of name a call from the current scope must reach
Innermost(name) ==
    LET chain == ScopeChain(scopes, current_scope)
    IN scopes[chain[SetMin(Declaring(name))] + 1].functions[name]

\* the step that enters evaluate_function_call and does not fail in it
Dispatch ==
    /\ phase = "run" /\ ctl.mode = "call" /\ ctl.fn = "evaluate_function_call"
    /\ outcome' = "pending"

\* the activation the step has pushed for the call is that of a declared function
DeclaredActivation(decl) ==
    /\ Len(kont') = Len(kont) + 1
    /\ Last(kont').node = ctl.node
    /\ Last(kont').pc \in {"evaluate_function_call.arguments", "evaluate_function_call.block"}
    /\ Last(kont').decl = decl
    /\ output' = output

\* C17: a call goes to the declared function of that name found first on the way
\* from the current scope to the root, also when a native of the name is
\* registered; the natives are consulted only when no such function is visible.
C17_CallResolutionOrder ==
    /\ [][Dispatch =>
            IF Declaring(ctl.node[2]) # {}
            THEN DeclaredActivation(Innermost(ctl.node[2]))
            ELSE ~(\E decl \in {Last(kont').decl} : DeclaredActivation(decl))]_vars
    /\ [](Finished(Src_shadow_native) => output = <<>>)
    /\ [](Gives(Src_shadow_native, Name_r, Integer(7)))
    /\ [](Gives(Src_inner_function, Name_r, Integer(2)))
    /\ [](Gives(Src_inner_function, Name_z, Integer(1)))

\* the declared print has been called instead of the native: nothing was printed
C17_Witness ==
    /\ Finished(Src_shadow_native)
    /\ outcome = "ok"
    /\ output = <<>>
    /\ Global(Name_r) = Integer(7)

\* no call of a declared function is running its body
NoActivation == \A i \in DOMAIN kont : kont[i].pc # "evaluate_function_call.block"

\* evaluate is entered for a return statement while no function is active
ReturnOutside ==
    /\ phase = "run" /\ ctl.mode = "call" /\ ctl.fn = "evaluate"
    /\ ctl.node[1] = "Return"
    /\ NoActivation

\* C18: a return evaluated while no function activation is active, also in a
\* branch of an if of the program and after earlier calls have completed, fails
\* with "Attempting to return outside a function block"; its expression is not
\* evaluated and no return slot is written.
C18_ReturnOutsideFunction ==
    [][ReturnOutside =>
         /\ outcome' = "runtime_error"
         /\ error'.msg = "Attempting to return outside a function block"
         /\ ctl' = Idle /\ kont' = <<>>
         /\ return_values' = return_values
         /\ return_values = <<>>
         /\ output' = output
         /\ scopes' = scopes]_vars

\* f() has returned, and the return of the program after it has failed before
\* print(2) was evaluated
C18_Witness ==
    /\ Finished(Src_return_after_calls)
    /\ outcome = "runtime_error"
    /\ error.msg = "Attempting to return outside a function block"
    /\ Bound(<<"a">>) /\ Global(<<"a">>) = Integer(1)
    /\ output = <<>>
    /\ return_values = <<>>

\* text is "false" in any case of its letters
SpellsFalse(text) ==
    /\ Len(text) = 5
    /\ text[1] \in {"f", "F"} /\ text[2] \in {"a", "A"} /\ text[3] \in {"l", "L"}
    /\ text[4] \in {"s", "S"} /\ text[5] \in {"e", "E"}

\* text is whitespace around nothing, around "0" or around "false"
FalsyText(text) ==
    \E i \in 0..Len(text) : \E j \in i..Len(text) :
        /\ \A k \in 1..i : text[k] \in {" ", NL, TAB, CR}
        /\ \A k \in (j + 1)..Len(text) : text[k] \in {" ", NL, TAB, CR}
        /\ \/ j = i
           \/ j = i + 1 /\ text[j] = "0"
           \/ SpellsFalse(SubSeq(text, i + 1, j))

\* the truthiness the specification gives a value
Truthy(v) ==
    CASE v.t = "Boolean" -> v = Boolean(TRUE)
      [] v.t \in {"Integer", "Float"} -> v.n # 0
      [] v.t = "Empty" -> FALSE
      [] v.t = "String" -> ~FalsyText(v.s)

\* the step that applies `!` to its evaluated operand
NotApplied ==
    /\ phase = "run" /\ ctl.mode = "ret" /\ kont # <<>>
    /\ Last(kont).pc = "evaluate_expression.UnaryOperation"
    /\ Last(kont).node[2] = "Unary.Not"

\* C19: a Boolean is its own truth value, an Integer and a Float are true iff not
\* zero, Empty is false, a String is false iff trimmed and in lower case it is
\* empty, "0" or "false"; `!e` is the Boolean negation of the truthiness of e, so
\* `!0`, `!""` and `!"false"` are true and `!"x"` is false.
C19_Truthiness ==
    /\ [][NotApplied => (outcome' = "pending" /\ ctl' = RetVal(Boolean(~Truthy(ctl.val))))]_vars
    /\ [](Gives(LetNotText(<<"0">>), Name_r, Boolean(TRUE)))
    /\ [](Gives(LetNotText(<<DQUOTE, DQUOTE>>), Name_r, Boolean(TRUE)))
    /\ [](Gives(LetNotText(<<DQUOTE, "f", "a", "l", "s", "e", DQUOTE>>), Name_r, Boolean(TRUE)))
    /\ [](Gives(LetNotText(<<DQUOTE, "x", DQUOTE>>), Name_r, Boolean(FALSE)))
    /\ [](Gives(Src_not_empty, Name_r, Boolean(TRUE)))

\* `!" FALSE<newline>"` has been evaluated to true
C19_Witness ==
    /\ Finished(LetNotText(<<DQUOTE, " ", "F", "A", "L", "S", "E", NL, DQUOTE>>))
    /\ outcome = "ok"
    /\ Bound(Name_r)
    /\ Global(Name_r) = Boolean(TRUE)

\* the step that applies one of the binary operators ops to its evaluated operands
ArithmeticApplied(ops) ==
    /\ phase = "run" /\ ctl.mode = "ret" /\ kont # <<>>
    /\ Last(kont).pc = "evaluate_expression.BinaryOperation.right"
    /\ Last(kont).node[3] \in ops
LeftOperand == Last(kont).val
RightOperand == ctl.val

BothCoerceToInteger == to_number(LeftOperand).t = "Integer" /\ to_number(RightOperand).t = "Integer"
EitherCoercesToFloat ==
    /\ {to_number(LeftOperand).t, to_number(RightOperand).t} \subseteq {"Integer", "Float"}
    /\ "Float" \in {to_number(LeftOperand).t, to_number(RightOperand).t}
BothCoerce == BothCoerceToInteger \/ EitherCoercesToFloat

\* the result over the unbounded integers
ExactResult ==
    LET a == to_number(LeftOperand).n
        b == to_number(RightOperand).n
        op == Last(kont).node[3]
    IN CASE op = "Additive.Add" -> a + b
         [] op = "Additive.Sub" -> a - b
         [] op = "Multiplicative.Mul" -> a * b
         [] OTHER -> 0

\* the step returns the Integer ExactResult / some Float, and the run goes on
ReturnsExactInteger == outcome' = "pending" /\ ctl' = RetVal(Integer(ExactResult))
ReturnsFloat == outcome' = "pending" /\ ctl'.mode = "ret" /\ ctl'.val.t = "Float"

\* Integer when both operands coerce to Integer and the result fits, else Float
IntegerPreserved ==
    /\ BothCoerceToInteger =>
            IF ExactResult >= I64Min /\ ExactResult <= I64Max THEN ReturnsExactInteger ELSE ReturnsFloat
    /\ EitherCoercesToFloat => ReturnsFloat

\* C20 as stated: for operands that both coerce to Integer, `+`, `-` and `*` return
\* the exact Integer when it fits in i64 and a Float otherwise; if either operand
\* coerces to Float the result is Float; `/` and `^` return Float whatever the
\* variants of their operands (a division by zero returns nothing).
C20_ArithmeticResultVariant ==
    [][/\ ArithmeticApplied({"Additive.Add", "Additive.Sub", "Multiplicative.Mul"}) => IntegerPreserved
       /\ ArithmeticApplied({"Multiplicative.Div"}) /\ BothCoerce /\ to_number(RightOperand).n # 0
            => ReturnsFloat
       /\ ArithmeticApplied({"Exponential"}) /\ BothCoerce => ReturnsFloat]_vars

HasStringOperand == LeftOperand.t = "String" \/ RightOperand.t = "String"

\* C20, amended: `+` without a String operand, `-` and `*` return the exact Integer
\* when both operands coerce to Integer and it fits in i64, a Float when it does not
\* fit or when an operand coerces to Float; `+` with a String operand returns the
\* String of the two texts, also when both coerce to numbers; `/` and `^` return
\* Float whatever the variants of their operands (`5 / 2` is Float 2.5, `2 + 3` is
\* Integer 5, `2 + 3.0` is Float 5.0).
C20_ArithmeticResultVariantAmended ==
    /\ [][ArithmeticApplied({"Additive.Sub", "Multiplicative.Mul"}) => IntegerPreserved]_vars
    /\ [][ArithmeticApplied({"Additive.Add"}) /\ ~HasStringOperand => IntegerPreserved]_vars
    /\ [][ArithmeticApplied({"Additive.Add"}) /\ HasStringOperand =>
             (outcome' = "pending"
              /\ ctl' = RetVal(String(to_string(LeftOperand) \o to_string(RightOperand))))]_vars
    /\ [][ArithmeticApplied({"Multiplicative.Div"}) /\ BothCoerce /\ to_number(RightOperand).n # 0
             => ReturnsFloat]_vars
    /\ [][ArithmeticApplied({"Exponential"}) /\ BothCoerce => ReturnsFloat]_vars
    /\ [](Gives(LetText(Ex_5_div_2), Name_r, Float(5, 2)))
    /\ [](Gives(LetText(Ex_2_plus_3), Name_r, Integer(5)))
    /\ [](Gives(LetText(Ex_2_plus_3_0), Name_r, Float(5, 1)))

\* the largest Integer plus 2 has been evaluated to a Float, and the least Integer
\* times 2 has not wrapped
C20_Witness ==
    /\ Finished(OperationText(MaxInt, <<"+">>, <<"2">>))
    /\ outcome = "ok"
    /\ Bound(Name_r)
    /\ Global(Name_r) = Float(I64Max + 2, 1)

\* the natural orders: numbers by value, texts by their characters, false before true
NumberLess(a, b) == a.n * b.d < b.n * a.d
TextLess(a, b) ==
    \E k \in 0..Len(a) :
        /\ k <= Len(b)
        /\ \A i \in 1..k : a[i] = b[i]
        /\ \/ k = Len(a) /\ k < Len(b)
           \/ k < Len(a) /\ k < Len(b) /\ CharCode(a[k + 1]) < CharCode(b[k + 1])
BothNumbers(a, b) == {a.t, b.t} \subseteq {"Integer", "Float"}
Ordered(a, b) == BothNumbers(a, b) \/ (a.t = b.t /\ a.t \in {"String", "Boolean"})
Less(a, b) ==
    CASE BothNumbers(a, b) -> NumberLess(a, b)
      [] a.t = "String" /\ b.t = "String" -> TextLess(a.s, b.s)
      [] a.t = "Boolean" /\ b.t = "Boolean" -> a.n < b.n
      [] OTHER -> FALSE
Equal(a, b) ==
    IF BothNumbers(a, b) THEN ~NumberLess(a, b) /\ ~NumberLess(b, a)
    ELSE a.t = b.t /\ a = b

\* what the specification gives `a cmp b`
Compared(op, a, b) ==
    CASE op = "Comp.Eq" -> Equal(a, b)
      [] op = "Comp.Neq" -> ~Equal(a, b)
      [] op = "Comp.Lt" -> Ordered(a, b) /\ Less(a, b)
      [] op = "Comp.Gt" -> Ordered(a, b) /\ Less(b, a)
      [] op = "Comp.Lte" -> Ordered(a, b) /\ ~Less(b, a)
      [] op = "Comp.Gte" -> Ordered(a, b) /\ ~Less(a, b)

\* the specification orders no pair of Empty values and says nothing of them
Unspecified(op, a, b) == a.t = "Empty" /\ b.t = "Empty" /\ op \notin {"Comp.Eq", "Comp.Neq"}

\* C21: a comparison returns a Boolean and never an error: equality is equality of
\* values for operands of one variant, numeric for Integer with Float, and false for
\* every other pair of variants (`!=` true); `<`, `<=`, `>`, `>=` follow the natural
\* order for two Integers, Floats, Strings or Booleans and for Integer with Float,
\* and are false for every other pair of different variants.
C21_ComparisonsReturnBoolean ==
    [][ArithmeticApplied(CompOps) =>
          /\ outcome' = "pending" /\ ctl'.mode = "ret" /\ ctl'.val.t = "Boolean"
          /\ ~Unspecified(Last(kont).node[3], LeftOperand, RightOperand) =>
                ctl' = RetVal(Boolean(Compared(Last(kont).node[3], LeftOperand, RightOperand)))]_vars

\* `"1" == 1` has been evaluated to false
C21_Witness ==
    /\ Finished(OperationText(<<DQUOTE, "1", DQUOTE>>, <<"=", "=">>, <<"1">>))
    /\ outcome = "ok"
    /\ Bound(Name_r)
    /\ Global(Name_r) = Boolean(FALSE)

\* C22: after any sequence of enter_function, exit_function_with_return and
\* set_return_value calls, an exit at depth 0 included, function_depth is the
\* length of the stack of return slots.
C22_DepthIsSlotCount == function_depth = Len(return_values)

\* two activations have been entered, one has been left and entered again, and the
\* outer one has been given a value
C22_Witness ==
    /\ phase = "context"
    /\ function_depth = 2
    /\ return_values = <<Integer(1), NoValue>>

\* the function activations in progress: the calls whose body is being evaluated
Activations == {i \in 1..Len(kont) : kont[i].pc = "evaluate_function_call.block"}

\* a step leaves the slot of every activation but the innermost as it is
OuterSlotsKept ==
    \A i \in 1..Len(return_values) :
        (i <= Len(return_values') /\ (i < Len(return_values) \/ Len(return_values') > Len(return_values)))
            => return_values'[i] = return_values[i]

\* a new slot is empty, and a slot is written by a `return` of its activation only
SlotWrittenByReturn ==
    /\ Len(return_values') > Len(return_values) =>
            return_values' = Append(return_values, NoValue)
    /\ (Len(return_values') = Len(return_values) /\ return_values' # return_values) =>
            /\ Last(kont).pc = "evaluate_return"
            /\ Len(kont) > SetMax(Activations)
            /\ Last(return_values') = ctl.val

\* the call yields the value of its slot, Integer(0) for an empty slot, and the slot
\* goes with the activation
SlotYielded ==
    (phase = "run" /\ ctl.mode = "ret" /\ kont # <<>>
     /\ Last(kont).pc = "evaluate_function_call.block") =>
        /\ return_values' = Front(return_values)
        /\ ctl' = RetVal(IF Last(return_values) = NoValue THEN Integer(0) ELSE Last(return_values))

\* C23: each function activation has its own return slot: a call yields the value
\* a `return` of that activation wrote, or Integer(0) if the activation executed no
\* `return`; a `return` of a nested or recursive callee never changes the slot of
\* the caller, so a function that calls a returning function and does not return
\* yields Integer(0).
C23_OwnReturnSlot ==
    /\ [][OuterSlotsKept /\ SlotWrittenByReturn /\ SlotYielded]_vars
    /\ [](phase = "run" => Cardinality(Activations) = Len(return_values))
    /\ [](Gives(Src_caller_no_return, Name_r, Integer(0)))
    /\ [](Gives(Src_caller_no_return, Name_z, Integer(6)))
    /\ [](Gives(Src_recursive_slots, Name_r, Integer(0)))
    /\ [](Gives(Src_recursive_slots, Name_z, Integer(7)))

\* f(1) has called f(0), which returned 7, and has itself yielded Integer(0)
C23_Witness ==
    /\ Finished(Src_recursive_slots)
    /\ outcome = "ok"
    /\ Bound(Name_r) /\ Global(Name_r) = Integer(0)
    /\ Bound(Name_z) /\ Global(Name_z) = Integer(7)

\* the pending evaluate_block activations, and the pending routines that hold a
\* frame of the call stack
BlockFrames == {i \in 1..Len(kont) : kont[i].pc = "evaluate_block"}
FrameHolders ==
    {i \in 1..Len(kont) : kont[i].pc \in {"evaluate_function_call.block",
                                          "evaluate_function_call.native_arguments"}}

\* the pending activations fix the context: the current scope is the one the
\* innermost block entered (the parameter scope, a child of the caller's scope,
\* between a function's call and its block), the call stack has a frame for each
\* call in progress and the depth counts the function activations
ContextFollowsActivations ==
    phase = "run" =>
        /\ Len(call_stack) = Cardinality(FrameHolders)
        /\ function_depth = Cardinality(Activations)
        /\ IF BlockFrames \cup Activations = {} THEN current_scope = 0
           ELSE LET f == kont[SetMax(BlockFrames \cup Activations)] IN
                IF f.pc = "evaluate_block" THEN current_scope = Len(f.entry)
                ELSE current_scope # f.saved /\ scopes[current_scope + 1].parent = f.saved

\* a routine finds the pending activations below it as they were when it was called
ActivationsKept ==
    /\ \A i \in 1..(Len(kont) - 1) : i <= Len(kont') => kont'[i] = kont[i]
    /\ (kont # <<>> /\ Len(kont') >= Len(kont) /\ Last(kont).pc = "evaluate_block") =>
            /\ kont'[Len(kont)].pc = "evaluate_block"
            /\ kont'[Len(kont)].saved = Last(kont).saved
            /\ kont'[Len(kont)].entry = Last(kont).entry

ContextKept ==
    /\ current_scope' = current_scope
    /\ call_stack' = call_stack
    /\ function_depth' = function_depth

\* evaluate_block keeps the scope it is entered in and restores it when it returns
\* Continue or Break
BlockBalanced ==
    /\ Calling("evaluate_block") =>
            IF Len(kont') > Len(kont)
            THEN /\ kont'[Len(kont) + 1].pc = "evaluate_block"
                 /\ kont'[Len(kont) + 1].saved = current_scope
                 /\ call_stack' = call_stack /\ function_depth' = function_depth
            ELSE outcome' = "pending" => (ctl'.flow = "Continue" /\ ContextKept)
    /\ (Returning({"evaluate_block"}) /\ Len(kont') < Len(kont)) =>
            /\ ctl'.flow \in {"Continue", "Break"}
            /\ current_scope' = Last(kont).saved
            /\ call_stack' = call_stack /\ function_depth' = function_depth

\* evaluate_function_call keeps the scope it binds the parameters from, and leaves
\* with that scope, without its frame and at the depth it found
CallBalanced ==
    /\ \A k \in 1..Len(kont') :
            (kont'[k].pc = "evaluate_function_call.block"
             /\ (k > Len(kont) \/ kont[k].pc # "evaluate_function_call.block")) =>
                /\ kont'[k].saved = current_scope
                /\ Len(call_stack') = Len(call_stack) + 1
                /\ function_depth' = function_depth + 1
    /\ Returning({"evaluate_function_call.block"}) =>
            /\ outcome' = "pending" /\ Len(kont') = Len(kont) - 1
            /\ current_scope' = Last(kont).saved
            /\ call_stack' = Front(call_stack)
            /\ function_depth' = function_depth - 1

\* C24: a block evaluation and a function call that complete without error are
\* balanced: they return with the current scope, the length of the call stack and
\* the function depth they were entered with, whether the body ended by Continue
\* or by Break; a run that finishes well ends in the parent of the program's block
\* with an empty call stack.
C24_BalancedEvaluation ==
    /\ [][ActivationsKept /\ BlockBalanced /\ CallBalanced]_vars
    /\ []ContextFollowsActivations
    /\ [](phase = "done" /\ outcome = "ok" =>
             (current_scope = 0 /\ call_stack = <<>> /\ function_depth = 0))

\* the call of f, whose body ended by Break, has returned and the run has finished
C24_Witness ==
    /\ Finished(Src_return_plain)
    /\ outcome = "ok"
    /\ Bound(Name_r) /\ Global(Name_r) = Integer(1)
    /\ current_scope = 0 /\ call_stack = <<>> /\ function_depth = 0

Range(q) == {q[i] : i \in 1..Len(q)}

\* the scopes visible to the caller of the innermost function activation
CallerScopes == Range(ScopeChain(scopes, kont[SetMax(Activations)].saved))

\* a step made inside a function body leaves every scope visible to the caller of
\* the function as it is: the bindings of the caller and the parameters of every
\* outer activation
CallerBindingsKept ==
    (phase = "run" /\ Activations # {}) =>
        \A id \in CallerScopes : scopes'[id + 1] = scopes[id + 1]

\* the call binds the parameters to the argument values in a scope made for this
\* activation, a child of the caller's scope, where they are found first
ParametersBound ==
    \A k \in 1..Len(kont') :
        (kont'[k].pc = "evaluate_function_call.block"
         /\ (k > Len(kont) \/ kont[k].pc # "evaluate_function_call.block")) =>
            LET params == kont'[k].decl[3]
                args == kont'[k].vals
                own == Len(scopes)
            IN /\ Len(scopes') = Len(scopes) + 1
               /\ SubSeq(scopes', 1, Len(scopes)) = scopes
               /\ current_scope' = own
               /\ scopes'[own + 1].parent = current_scope
               /\ DOMAIN scopes'[own + 1].variables = {params[i] : i \in 1..Len(params)}
               /\ \A i \in 1..Len(params) :
                      (\A j \in (i + 1)..Len(params) : params[j] # params[i]) =>
                          lookup_variable(scopes', current_scope', params[i])
                              = [found |-> TRUE, value |-> args[i]]

\* C25: arguments are passed by value into a fresh scope per activation: the
\* parameters shadow outer bindings of the same name inside the body, a `let` of a
\* parameter name in the body changes no binding visible to the caller, and the
\* parameters of an outer activation are as they were when a nested or recursive
\* call returns.
C25_ParametersByValue ==
    /\ [][CallerBindingsKept /\ ParametersBound]_vars
    /\ [](Gives(Src_param_shadow, Name_r, Integer(1)))
    /\ [](Gives(Src_param_shadow, Name_z, Integer(5)))
    /\ [](Gives(Src_function_scope, Name_r, Integer(5)))
    /\ [](Gives(Src_function_scope, Name_z, Integer(1)))

\* f(1) has run f(0) and a `let n` in both bodies, and has returned its own n
C25_Witness ==
    /\ Finished(Src_param_shadow)
    /\ outcome = "ok"
    /\ Bound(Name_r) /\ Global(Name_r) = Integer(1)
    /\ Bound(Name_z) /\ Global(Name_z) = Integer(5)

ScopeIds == 0..(Len(scopes) - 1)

\* scope 0 alone has no parent, every other parent is an older scope, and the
\* current scope is a scope of the arena
ParentsOlder ==
    /\ scopes # <<>>
    /\ scopes[1].parent = -1
    /\ \A id \in ScopeIds \ {0} : scopes[id + 1].parent \in 0..(id - 1)
    /\ current_scope \in ScopeIds

\* the names bound somewhere in the arena, and one that is bound nowhere
VariableNames == UNION {DOMAIN scopes[id + 1].variables : id \in ScopeIds} \cup {<<"?">>}
FunctionNames == UNION {DOMAIN scopes[id + 1].functions : id \in ScopeIds} \cup {<<"?">>}

\* the places in the chain of scope id whose scope binds the variable / the function
VariableBinders(id, name) ==
    LET chain == ScopeChain(scopes, id)
    IN {k \in 1..Len(chain) : name \in DOMAIN scopes[chain[k] + 1].variables}
FunctionBinders(id, name) ==
    LET chain == ScopeChain(scopes, id)
    IN {k \in 1..Len(chain) : name \in DOMAIN scopes[chain[k] + 1].functions}

\* the binding of the nearest enclosing scope
NearestVariable(id, name) ==
    IF VariableBinders(id, name) = {} THEN [found |-> FALSE, value |-> NoValue]
    ELSE [found |-> TRUE,
          value |-> scopes[ScopeChain(scopes, id)[SetMin(VariableBinders(id, name))] + 1]
                        .variables[name]]
NearestFunction(id, name) ==
    IF FunctionBinders(id, name) = {} THEN [found |-> FALSE, function |-> NoNode]
    ELSE [found |-> TRUE,
          function |-> scopes[ScopeChain(scopes, id)[SetMin(FunctionBinders(id, name))] + 1]
                           .functions[name]]

\* a lookup from any scope visits at most (scope ID + 1) scopes and returns the
\* binding of the nearest enclosing scope
LookupsNearest ==
    \A id \in ScopeIds :
        /\ Len(ScopeChain(scopes, id)) <= id + 1
        /\ \A name \in VariableNames : lookup_variable(scopes, id, name) = NearestVariable(id, name)
        /\ \A name \in FunctionNames : lookup_function(scopes, id, name) = NearestFunction(id, name)

\* a step removes no scope and gives no scope another parent
ArenaGrows ==
    /\ Len(scopes') >= Len(scopes)
    /\ \A id \in ScopeIds :
          /\ scopes'[id + 1].parent = scopes[id + 1].parent
          /\ DOMAIN scopes[id + 1].variables \subseteq DOMAIN scopes'[id + 1].variables
          /\ DOMAIN scopes[id + 1].functions \subseteq DOMAIN scopes'[id + 1].functions

\* C26: under the evaluator's enter_new_scope and restore_scope the arena only
\* grows, scope 0 is the only scope without a parent, every other scope has a
\* parent with a smaller ID, so a lookup of a variable or a function ends within
\* (scope ID + 1) steps with the binding of the nearest enclosing scope.
C26_ScopeArenaInvariant ==
    /\ [][ArenaGrows]_vars
    /\ [](ParentsOlder /\ LookupsNearest)

\* a block has been left for an older scope four deep, where a lookup finds a
\* variable bound further out
C26_Witness ==
    /\ phase = "run"
    /\ current_scope < Len(scopes) - 1
    /\ Len(ScopeChain(scopes, current_scope)) >= 4
    /\ \E name \in VariableNames :
          /\ name \notin DOMAIN scopes[current_scope + 1].variables
          /\ lookup_variable(scopes, current_scope, name).found

Name_f == <<"f">>

\* the tokens with every call `f(2)` replaced by the identifier f
RECURSIVE IdentifiersForCalls(_)
IdentifiersForCalls(toks) ==
    IF toks = <<>> THEN <<>>
    ELSE IF Len(toks) >= 4 /\ toks[1].token_type = "Symbol" /\ toks[1].value = Name_f
            /\ toks[2].token_type = "ParenthesisL"
    THEN <<toks[1]>> \o IdentifiersForCalls(SubSeq(toks, 5, Len(toks)))
    ELSE <<toks[1]>> \o IdentifiersForCalls(Tail(toks))

\* the tree with every identifier f replaced by the call `f(2)` of line 1
RECURSIVE CallsForIdentifiers(_)
CallsForIdentifiers(node) ==
    CASE node[1] = "Identifier" /\ node[2] = Name_f ->
           build_method_call_node(Name_f, <<(<<"Literal", Integer(2)>>)>>, 1)
      [] node[1] = "BinaryOperation" ->
           build_binary_op_node(node[3], CallsForIdentifiers(node[2]), CallsForIdentifiers(node[4]))
      [] node[1] = "UnaryOperation" -> <<"UnaryOperation", node[2], CallsForIdentifiers(node[3])>>
      [] node[1] = "Declaration" -> build_assignment_node(node[2], CallsForIdentifiers(node[3]))
      [] node[1] = "Statement" -> build_statement_node(CallsForIdentifiers(node[2]))
      [] node[1] = "Program" ->
           build_program_node([i \in 1..Len(node[2]) |-> CallsForIdentifiers(node[2][i])])
      [] OTHER -> node

\* the parse of the program agrees with the parse of the same program with
\* identifiers in place of its calls
LikeIdentifiers(identifiers) ==
    /\ (outcome # "parse_error") = identifiers.ok
    /\ identifiers.ok => ast = CallsForIdentifiers(identifiers.node)

\* C27: an operand that is a function call groups like an identifier in its place:
\* putting the call `f(2)` for an identifier operand of an expression changes
\* neither whether the parser accepts it nor how it groups it, and `1 + f(2) * 3`
\* parses as 1 + (f(2) * 3).
C27_CallOperandGroupsLikeIdentifier ==
    (program \in CallSources /\ phase \in {"run", "done"}) =>
        LikeIdentifiers(Parse(IdentifiersForCalls(tokens)))

\* the positions a parse routine can be called at, and the precedences it is given
Positions == 0..Len(tokens)
Precedences == 0..4

\* the routine called at pos returned an error or left the position further on
Advances(r, pos) == r.ok => (r.pos > pos /\ r.pos <= Len(tokens))

\* the routines that take at least one token whenever they succeed
TakeATokenAt(pos) ==
    /\ Advances(parse_statement(tokens, pos), pos)
    /\ Advances(parse_declaration(tokens, pos), pos)
    /\ Advances(parse_function_declaration(tokens, pos), pos)
    /\ Advances(parse_conditional(tokens, pos), pos)
    /\ Advances(parse_return(tokens, pos), pos)
    /\ Advances(parse_method_call(tokens, pos), pos)
    /\ Advances(parse_term(tokens, pos), pos)
    /\ \A precedence \in Precedences :
          /\ Advances(parse_expression(tokens, pos, precedence), pos)
          /\ Advances(parse_binary_expression(tokens, pos, precedence), pos)

\* C28 as stated: each of parse_block, parse_statement, parse_declaration,
\* parse_function_declaration, parse_conditional, parse_return, parse_expression,
\* parse_method_call, parse_method_args, parse_binary_expression and parse_term
\* called at a token returns an error or leaves the position at least one token
\* further on.
C28_ParserProgress ==
    phase = "parse" =>
        \A pos \in Positions \ {Len(tokens)} :
            /\ TakeATokenAt(pos)
            /\ Advances(parse_block(tokens, pos), pos)
            /\ Advances(parse_method_args(tokens, pos, <<>>), pos)

\* the routine called at pos did not go back, and stayed at pos exactly when the
\* token there is of type closer or there is no token
StaysOnlyAt(r, pos, closer) ==
    r.ok => /\ r.pos >= pos /\ r.pos <= Len(tokens)
            /\ r.pos = pos <=> (~PPeek(tokens, pos).has \/ peek_type_is(tokens, pos, closer))

\* C28, amended: parse_statement, parse_declaration, parse_function_declaration,
\* parse_conditional, parse_return, parse_expression, parse_method_call,
\* parse_binary_expression and parse_term return an error or leave the position at
\* least one token further on; parse_block and parse_method_args never go back and
\* succeed without taking a token exactly when the next token is `}`, respectively
\* `)`, or there is none; Parser::parse returns for every token sequence.
C28_ParserProgressAmended ==
    phase = "parse" =>
        /\ \A pos \in Positions :
              /\ TakeATokenAt(pos)
              /\ StaysOnlyAt(parse_block(tokens, pos), pos, "BlockEnd")
              /\ StaysOnlyAt(parse_method_args(tokens, pos, <<>>), pos, "ParenthesisR")
        /\ Parse(tokens).pos \in Positions

\* in `func f() { }` the declaration is parsed from `func` to `}`, while the block
\* at `}` and the arguments at `)` succeed without taking a token
C28_Witness ==
    /\ phase = "parse"
    /\ program = Src_whole_func
    /\ parse_function_declaration(tokens, 0).ok
    /\ parse_function_declaration(tokens, 0).pos = 6
    /\ parse_block(tokens, 5).ok /\ parse_block(tokens, 5).pos = 5
    /\ parse_method_args(tokens, 3, <<>>).ok /\ parse_method_args(tokens, 3, <<>>).pos = 3

\* the step that enters the body of a declared function makes the scope of the
\* parameters a child of the scope the call is made from
ParameterScopeUnderCaller ==
    \A k \in 1..Len(kont') :
        (kont'[k].pc = "evaluate_function_call.block"
         /\ (k > Len(kont) \/ kont[k].pc # "evaluate_function_call.block")) =>
            /\ current_scope' = Len(scopes)
            /\ scopes'[current_scope' + 1].parent = current_scope

\* inside a function body every scope visible to the caller is on the chain of
\* the current scope
CallerChainVisible ==
    (phase = "run" /\ Activations # {}) =>
        CallerScopes \subseteq Range(ScopeChain(scopes, current_scope))

\* C29: the scope of the parameters of a call is a child of the caller's current
\* scope, not of the scope of the declaration: a name free in the body resolves
\* through the scopes of the caller, and g called by f reads the local v and calls
\* the local function h of f, neither visible where g is declared.
C29_DynamicScoping ==
    /\ [][ParameterScopeUnderCaller]_vars
    /\ []CallerChainVisible
    /\ [](Gives(Src_dynamic_scope, Name_r, Integer(7)))

\* g has read v and called h through the scopes of its caller f
C29_Witness ==
    /\ Finished(Src_dynamic_scope)
    /\ outcome = "ok"
    /\ Bound(Name_r)
    /\ Global(Name_r) = Integer(7)

\* the context in which every statement of the program's block starts: the scope
\* of that block, no call in progress
AtProgramStatement ==
    /\ current_scope = 1
    /\ call_stack = <<>>
    /\ function_depth = 0
    /\ return_values = <<>>

\* C30: when the evaluation of a statement returns a RuntimeError from inside a
\* block, a function body or the arguments of a native call, the current scope, the
\* call stack, the function depth and the return slots are those the statement
\* started with, so a `return` evaluated next at top level is still rejected.
C30_ContextRestoredOnError ==
    (phase = "done" /\ outcome = "runtime_error") =>
        (AtProgramStatement /\ ~is_in_function(Machine))

====
